---------------------------- MODULE Spec2Model ----------------------------
(***************************************************************************)
(* A model of the mowgli validation engine (Go implementation).            *)
(*                                                                         *)
(* Strings of the program are sequences of one-character strings, so that  *)
(* the tokenizer can index them byte by byte as the Go code does.          *)
(* Pointers and nil-able slices are options: <<>> is nil, <<x>> is &x.     *)
(* Spec nodes and Properties/Then/Else maps live in a heap, because the    *)
(* Go code shares them by reference.                                       *)
(***************************************************************************)
EXTENDS Integers, Sequences, FiniteSets, TLC

(***************************************************************************)
(* Strings                                                                 *)
(***************************************************************************)
None == <<>>
Some(x) == <<x>>
IsSome(o) == o # <<>>
Get(o) == o[1]

\* what the model does not cover: evaluation stops there
OutsideModel == CHOOSE x \in {} : TRUE

\* the 256 bytes in order: a byte that a TLA+ string cannot hold (a control
\* character, the backquote, a byte from 0x80 on) is written "\xNN", a string
\* of four characters that stands for the one byte
ByteTable ==
  <<"\\x00", "\\x01", "\\x02", "\\x03", "\\x04", "\\x05", "\\x06", "\\x07",
     "\\x08", "\t", "\n", "\\x0B", "\f", "\r", "\\x0E", "\\x0F",
     "\\x10", "\\x11", "\\x12", "\\x13", "\\x14", "\\x15", "\\x16", "\\x17",
     "\\x18", "\\x19", "\\x1A", "\\x1B", "\\x1C", "\\x1D", "\\x1E", "\\x1F",
     " ", "!", "\"", "#", "$", "%", "&", "'",
     "(", ")", "*", "+", ",", "-", ".", "/",
     "0", "1", "2", "3", "4", "5", "6", "7",
     "8", "9", ":", ";", "<", "=", ">", "?",
     "@", "A", "B", "C", "D", "E", "F", "G",
     "H", "I", "J", "K", "L", "M", "N", "O",
     "P", "Q", "R", "S", "T", "U", "V", "W",
     "X", "Y", "Z", "[", "\\", "]", "^", "_",
     "\\x60", "a", "b", "c", "d", "e", "f", "g",
     "h", "i", "j", "k", "l", "m", "n", "o",
     "p", "q", "r", "s", "t", "u", "v", "w",
     "x", "y", "z", "{", "|", "}", "~", "\\x7F",
     "\\x80", "\\x81", "\\x82", "\\x83", "\\x84", "\\x85", "\\x86", "\\x87",
     "\\x88", "\\x89", "\\x8A", "\\x8B", "\\x8C", "\\x8D", "\\x8E", "\\x8F",
     "\\x90", "\\x91", "\\x92", "\\x93", "\\x94", "\\x95", "\\x96", "\\x97",
     "\\x98", "\\x99", "\\x9A", "\\x9B", "\\x9C", "\\x9D", "\\x9E", "\\x9F",
     "\\xA0", "\\xA1", "\\xA2", "\\xA3", "\\xA4", "\\xA5", "\\xA6", "\\xA7",
     "\\xA8", "\\xA9", "\\xAA", "\\xAB", "\\xAC", "\\xAD", "\\xAE", "\\xAF",
     "\\xB0", "\\xB1", "\\xB2", "\\xB3", "\\xB4", "\\xB5", "\\xB6", "\\xB7",
     "\\xB8", "\\xB9", "\\xBA", "\\xBB", "\\xBC", "\\xBD", "\\xBE", "\\xBF",
     "\\xC0", "\\xC1", "\\xC2", "\\xC3", "\\xC4", "\\xC5", "\\xC6", "\\xC7",
     "\\xC8", "\\xC9", "\\xCA", "\\xCB", "\\xCC", "\\xCD", "\\xCE", "\\xCF",
     "\\xD0", "\\xD1", "\\xD2", "\\xD3", "\\xD4", "\\xD5", "\\xD6", "\\xD7",
     "\\xD8", "\\xD9", "\\xDA", "\\xDB", "\\xDC", "\\xDD", "\\xDE", "\\xDF",
     "\\xE0", "\\xE1", "\\xE2", "\\xE3", "\\xE4", "\\xE5", "\\xE6", "\\xE7",
     "\\xE8", "\\xE9", "\\xEA", "\\xEB", "\\xEC", "\\xED", "\\xEE", "\\xEF",
     "\\xF0", "\\xF1", "\\xF2", "\\xF3", "\\xF4", "\\xF5", "\\xF6", "\\xF7",
     "\\xF8", "\\xF9", "\\xFA", "\\xFB", "\\xFC", "\\xFD", "\\xFE", "\\xFF">>
\* the byte of a number 0..255 and the number of a byte
Chr(n) == ByteTable[n + 1]
Ord(c) == (CHOOSE k \in 1..256 : ByteTable[k] = c) - 1

\* the white space below 0x80: \t \n \v \f \r and the space
ASCIISpace == {" ", "\t", "\n", "\\x0B", "\f", "\r"}
\* unicode.IsSpace(rune(c)) on a byte c: the Latin-1 white space, U+0085 and
\* U+00A0 included
IsSpace(c) == c \in ASCIISpace \cup {"\\x85", "\\xA0"}

LowerLetters == <<"a","b","c","d","e","f","g","h","i","j","k","l","m",
                  "n","o","p","q","r","s","t","u","v","w","x","y","z">>
UpperLetters == <<"A","B","C","D","E","F","G","H","I","J","K","L","M",
                  "N","O","P","Q","R","S","T","U","V","W","X","Y","Z">>

\* strings.ToUpper on one byte
ToUpper(c) ==
    IF \E k \in 1..Len(LowerLetters) : LowerLetters[k] = c
    THEN UpperLetters[CHOOSE k \in 1..Len(LowerLetters) : LowerLetters[k] = c]
    ELSE c

\* c | ('x' - 'X') of strconv, and the lower case of a string
lower(c) ==
    IF \E k \in 1..Len(UpperLetters) : UpperLetters[k] = c
    THEN LowerLetters[CHOOSE k \in 1..Len(UpperLetters) : UpperLetters[k] = c]
    ELSE c
ToLower(s) == [k \in 1..Len(s) |-> lower(s[k])]

\* s[i:j] with Go's 0-based half-open indices
Slice(s, i, j) == [k \in 1..(j - i) |-> s[i + k]]


(***************************************************************************)
(* UTF-8 (unicode/utf8): runes are numbers, RuneError is U+FFFD.           *)
(***************************************************************************)
RuneError == 65533
Rune(r, size) == [r |-> r, size |-> size]
IsCont(c, lo, hi) == Ord(c) >= lo /\ Ord(c) <= hi
\* the range of the second byte after the lead byte b, <<>> for no lead byte
SecondRange(b) ==
    IF b = 224 THEN <<160, 191>>
    ELSE IF b = 237 THEN <<128, 159>>
    ELSE IF b = 240 THEN <<144, 191>>
    ELSE IF b = 244 THEN <<128, 143>>
    ELSE IF b >= 194 /\ b <= 243 THEN <<128, 191>>
    ELSE <<>>
RuneWidth(b) == IF b < 224 THEN 2 ELSE IF b < 240 THEN 3 ELSE 4
\* the bits of the lead byte b that belong to the rune
LeadBits(b) == IF b < 224 THEN b - 192 ELSE IF b < 240 THEN b - 224 ELSE b - 240
RECURSIVE ContBits(_, _, _, _)
\* the rune of the bytes i..j of s after the bits v of the bytes before
ContBits(s, i, j, v) ==
    IF i > j THEN v ELSE ContBits(s, i + 1, j, v * 64 + (Ord(s[i]) - 128))
\* utf8.DecodeRuneInString(s) for a lead byte b: (RuneError, 1) for what is
\* no encoding
DecodeMulti(s, b, range) ==
    IF /\ range # <<>>
       /\ Len(s) >= RuneWidth(b)
       /\ IsCont(s[2], range[1], range[2])
       /\ \A k \in 3..RuneWidth(b) : IsCont(s[k], 128, 191)
    THEN Rune(ContBits(s, 2, RuneWidth(b), LeadBits(b)), RuneWidth(b))
    ELSE Rune(RuneError, 1)
DecodeByte(s, b) == IF b < 128 THEN Rune(b, 1) ELSE DecodeMulti(s, b, SecondRange(b))
DecodeRune(s) == IF s = <<>> THEN Rune(RuneError, 0) ELSE DecodeByte(s, Ord(s[1]))
\* the run of s from byte i (0-based) on
RuneAt(s, i) == DecodeRune(SubSeq(s, i + 1, Len(s)))
IsInvalidAt(s, i) == RuneAt(s, i) = Rune(RuneError, 1)

RECURSIVE ValidFrom(_, _)
ValidFrom(s, i) ==
    i >= Len(s) \/ (~IsInvalidAt(s, i) /\ ValidFrom(s, i + RuneAt(s, i).size))
\* utf8.ValidString
ValidString(s) == ValidFrom(s, 0)

\* utf8.ValidRune
ValidRune(r) == (r >= 0 /\ r < 55296) \/ (r > 57343 /\ r <= 1114111)
\* utf8.AppendRune(nil, r)
EncodeValid(r) ==
    IF r < 128 THEN <<Chr(r)>>
    ELSE IF r < 2048 THEN <<Chr(192 + (r \div 64)), Chr(128 + (r % 64))>>
    ELSE IF r < 65536
    THEN <<Chr(224 + (r \div 4096)), Chr(128 + ((r \div 64) % 64)), Chr(128 + (r % 64))>>
    ELSE <<Chr(240 + (r \div 262144)), Chr(128 + ((r \div 4096) % 64)),
           Chr(128 + ((r \div 64) % 64)), Chr(128 + (r % 64))>>
EncodeRune(r) == IF ValidRune(r) THEN EncodeValid(r) ELSE EncodeValid(RuneError)

RECURSIVE RunesFrom(_, _)
\* []rune(s): every byte that is no encoding gives one RuneError
RunesFrom(s, i) ==
    IF i >= Len(s) THEN <<>> ELSE <<RuneAt(s, i).r>> \o RunesFrom(s, i + RuneAt(s, i).size)
Runes(s) == RunesFrom(s, 0)

\* the least and the greatest element of a non-empty set of integers
Min(S) == CHOOSE k \in S : \A m \in S : k <= m
Max(S) == CHOOSE k \in S : \A m \in S : k >= m

\* strings.HasPrefix(s[i:], pat)
HasPrefixAt(s, i, pat) ==
    /\ Len(s) - i >= Len(pat)
    /\ \A k \in 1..Len(pat) : s[i + k] = pat[k]

\* the UTF-8 encodings of the white space from U+0080 on: U+0085, U+00A0,
\* U+1680, U+2000..U+200A, U+2028, U+2029, U+202F, U+205F, U+3000
UnicodeSpaces ==
    {<<"\\xC2", "\\x85">>, <<"\\xC2", "\\xA0">>, <<"\\xE1", "\\x9A", "\\x80">>,
     <<"\\xE2", "\\x81", "\\x9F">>, <<"\\xE3", "\\x80", "\\x80">>}
    \cup {<<"\\xE2", "\\x80", c>> :
            c \in {"\\x80", "\\x81", "\\x82", "\\x83", "\\x84", "\\x85", "\\x86",
                   "\\x87", "\\x88", "\\x89", "\\x8A", "\\xA8", "\\xA9", "\\xAF"}}

\* strings.HasSuffix(s, pat)
HasSuffix(s, pat) ==
    /\ Len(s) >= Len(pat)
    /\ \A k \in 1..Len(pat) : s[Len(s) - Len(pat) + k] = pat[k]

\* the width of the white-space rune s starts with and of the one it ends
\* with, 0 if there is none: strings.TrimSpace decodes UTF-8, so that a lone
\* byte 0x85 or 0xA0 is no white space to it
LeadingSpace(s) ==
    IF s = <<>> THEN 0
    ELSE IF s[1] \in ASCIISpace THEN 1
    ELSE IF \E u \in UnicodeSpaces : HasPrefixAt(s, 0, u)
    THEN Len(CHOOSE u \in UnicodeSpaces : HasPrefixAt(s, 0, u))
    ELSE 0
TrailingSpace(s) ==
    IF s = <<>> THEN 0
    ELSE IF s[Len(s)] \in ASCIISpace THEN 1
    ELSE IF \E u \in UnicodeSpaces : HasSuffix(s, u)
    THEN Len(CHOOSE u \in UnicodeSpaces : HasSuffix(s, u))
    ELSE 0

RECURSIVE TrimLeftSpace(_)
TrimLeftSpace(s) ==
    IF LeadingSpace(s) = 0 THEN s
    ELSE TrimLeftSpace(SubSeq(s, LeadingSpace(s) + 1, Len(s)))
RECURSIVE TrimRightSpace(_)
TrimRightSpace(s) ==
    IF TrailingSpace(s) = 0 THEN s
    ELSE TrimRightSpace(SubSeq(s, 1, Len(s) - TrailingSpace(s)))
\* strings.TrimSpace
TrimSpace(s) == TrimRightSpace(TrimLeftSpace(s))

\* strings.HasPrefix(strings.ToUpper(s[i:]), pat)
HasUpperPrefixAt(s, i, pat) ==
    /\ Len(s) - i >= Len(pat)
    /\ \A k \in 1..Len(pat) : ToUpper(s[i + k]) = pat[k]

\* strings.Contains(s, c) for a one-byte c
Contains(s, c) == \E k \in 1..Len(s) : s[k] = c

\* the 1-based index of the first byte of s in chars, Len(s) + 1 if none
IndexAny(s, chars) == Min({k \in 1..Len(s) : s[k] \in chars} \cup {Len(s) + 1})

(***************************************************************************)
(* Values: the dynamic values of Go's `any` that the validator meets.      *)
(* A float64 is n * 10^-e with n not divisible by 10 unless e = 0; e = -1   *)
(* marks the infinities and NaN.                                           *)
(***************************************************************************)
NilV == [k |-> "nil"]
BoolV(b) == [k |-> "bool", b |-> b]
StrV(s) == [k |-> "string", s |-> s]
IntV(i) == [k |-> "int", i |-> i]
Int64V(i) == [k |-> "int64", i |-> i]
FloatV(n, e) == [k |-> "float64", n |-> n, e |-> e]
SliceV(a) == [k |-> "slice", a |-> a]
MapV(m) == [k |-> "map", m |-> m]

RECURSIVE Pow10(_)
Pow10(e) == IF e = 0 THEN 1 ELSE 10 * Pow10(e - 1)

RECURSIVE NormFloat(_, _)
NormFloat(n, e) ==
    IF e > 0 /\ n % 10 = 0 THEN NormFloat(n \div 10, e - 1) ELSE FloatV(n, e)

\* float64(v) for an integer kind
IntToFloat(i) == FloatV(i, 0)

\* +Inf, -Inf and NaN: the float64 values that are no decimal fraction
PosInf == FloatV(1, -1)
NegInf == FloatV(-1, -1)
NaN == FloatV(0, -1)
IsFinite(f) == f.e >= 0

RECURSIVE ScaledLess(_, _, _)
\* n < m * 10^d, without forming the product
ScaledLess(n, m, d) ==
    IF d = 0 THEN n < m
    ELSE IF n = 0 THEN 0 < m
    ELSE IF n = -1 THEN 0 <= m
    ELSE ScaledLess(n \div 10, m, d - 1)
RECURSIVE ScaledGreater(_, _, _)
\* n > m * 10^d
ScaledGreater(n, m, d) ==
    IF d = 0 THEN n > m
    ELSE IF n = 0 THEN m < 0
    ELSE IF n = 1 THEN m <= 0
    ELSE ScaledGreater(0 - ((0 - n) \div 10), m, d - 1)
\* a < b on finite values
FiniteLess(a, b) ==
    IF a.e >= b.e THEN ScaledLess(a.n, b.n, a.e - b.e)
    ELSE ScaledGreater(b.n, a.n, b.e - a.e)

\* a < b, a == b, a <= b on float64
FloatLess(a, b) ==
    IF IsFinite(a) /\ IsFinite(b) THEN FiniteLess(a, b)
    ELSE IF a = NaN \/ b = NaN THEN FALSE
    ELSE IF a = NegInf THEN b # NegInf
    ELSE IF b = PosInf THEN a # PosInf
    ELSE FALSE
FloatEq(a, b) ==
    IF IsFinite(a) /\ IsFinite(b) THEN ~FiniteLess(a, b) /\ ~FiniteLess(b, a)
    ELSE a = b /\ a # NaN
FloatLessEq(a, b) == FloatLess(a, b) \/ FloatEq(a, b)

(***************************************************************************)
(* Errors: a Go error or message built by fmt.Errorf / fmt.Sprintf is the  *)
(* format string with its arguments.                                       *)
(***************************************************************************)
Msg(fmt, args) == [fmt |-> fmt, args |-> args]
TypeArg(t) == [k |-> "text", t |-> t]
NoErr == Msg("", <<>>)

(***************************************************************************)
(* Expression tokenizer (expression.go)                                    *)
(***************************************************************************)
Tok(typ, value) == [typ |-> typ, value |-> value]

operators == << <<"!","=">>, <<"=","=">>, <<">","=">>, <<"<","=">>, <<">">>, <<"<">> >>

\* the first operator of `operators` that prefixes expr[i:], or <<>>
FirstOperator(hits) == IF hits = {} THEN <<>> ELSE operators[Min(hits)]
OperatorAt(expr, i) ==
    FirstOperator({k \in 1..Len(operators) : HasPrefixAt(expr, i, operators[k])})

\* expr[i] with Go's 0-based index
At(expr, i) == expr[i + 1]

\* the operator check's word-boundary test for AND/OR at i (lines 200-212)
OpWordAt(expr, i, word) ==
    /\ (i = 0 \/ IsSpace(At(expr, i - 1)) \/ At(expr, i - 1) = "(")
    /\ HasUpperPrefixAt(expr, i, word)
    /\ (i + Len(word) >= Len(expr)
          \/ IsSpace(At(expr, i + Len(word)))
          \/ At(expr, i + Len(word)) = ")")

\* the literal scan's word-boundary test for AND/OR at i (lines 279-288)
LitWordAt(expr, i, word) ==
    /\ HasUpperPrefixAt(expr, i, word)
    /\ (i = 0 \/ IsSpace(At(expr, i - 1)) \/ At(expr, i - 1) = ")")
    /\ (i + Len(word) >= Len(expr)
          \/ IsSpace(At(expr, i + Len(word)))
          \/ At(expr, i + Len(word)) = "(")

AND == <<"A","N","D">>
OR == <<"O","R">>

\* the inner loop of the literal scan (lines 235-294): the index it stops at
RECURSIVE LitScan(_, _, _, _)
LitScan(expr, i, inQuotes, quoteChar) ==
    IF i >= Len(expr) THEN i
    ELSE IF (At(expr, i) = "\"" \/ At(expr, i) = "'") /\ ~inQuotes
    THEN LitScan(expr, i + 1, TRUE, At(expr, i))
    ELSE IF inQuotes
    THEN IF At(expr, i) = quoteChar
         THEN IF i + 1 < Len(expr) /\ At(expr, i + 1) = quoteChar
              THEN LitScan(expr, i + 2, inQuotes, quoteChar)
              ELSE i + 1
         ELSE LitScan(expr, i + 1, inQuotes, quoteChar)
    ELSE IF At(expr, i) = "(" \/ At(expr, i) = ")" \/ IsSpace(At(expr, i)) THEN i
    ELSE IF OperatorAt(expr, i) # <<>> THEN i
    ELSE IF LitWordAt(expr, i, AND) \/ LitWordAt(expr, i, OR) THEN i
    ELSE LitScan(expr, i + 1, inQuotes, quoteChar)

\* the whitespace skip at the head of the outer loop (lines 179-181)
RECURSIVE SkipSpace(_, _)
SkipSpace(expr, i) ==
    IF i < Len(expr) /\ IsSpace(At(expr, i)) THEN SkipSpace(expr, i + 1) ELSE i

\* the end of the literal scan (lines 295-299): the literal, trimmed, becomes a
\* token unless it is empty, and the cursor is where the scan stopped
TokLiteral(tokens, end, literal) ==
    [i |-> end,
     tokens |-> IF literal # <<>> THEN Append(tokens, Tok("tokenLiteral", literal))
                ELSE tokens]

\* the comparison-operator check (lines 215-229), then the literal scan
TokOperator(expr, i, tokens, op) ==
    IF op # <<>>
    THEN [i |-> i + Len(op), tokens |-> Append(tokens, Tok("tokenOperator", op))]
    ELSE TokLiteral(tokens, LitScan(expr, i, FALSE, ""),
                    TrimSpace(Slice(expr, i, LitScan(expr, i, FALSE, ""))))

\* the body of the outer loop after the whitespace skip (lines 182-299)
TokAt(expr, i, tokens) ==
    IF i >= Len(expr) THEN [i |-> i, tokens |-> tokens]
    ELSE IF At(expr, i) = "("
    THEN [i |-> i + 1, tokens |-> Append(tokens, Tok("tokenLParen", <<"(">>))]
    ELSE IF At(expr, i) = ")"
    THEN [i |-> i + 1, tokens |-> Append(tokens, Tok("tokenRParen", <<")">>))]
    ELSE IF OpWordAt(expr, i, AND)
    THEN [i |-> i + 3, tokens |-> Append(tokens, Tok("tokenAnd", AND))]
    ELSE IF OpWordAt(expr, i, OR)
    THEN [i |-> i + 2, tokens |-> Append(tokens, Tok("tokenOr", OR))]
    ELSE TokOperator(expr, i, tokens, OperatorAt(expr, i))

\* One iteration of the tokenizer's outer loop (lines 177-300), entered with
\* cursor i0 < len(expr): the cursor and the tokens at the end of the iteration.
TokIter(expr, i0, tokens) == TokAt(expr, SkipSpace(expr, i0), tokens)

\* The outer loop run to its end.  An iteration that leaves the cursor where it
\* was leaves the whole loop state where it was, so the loop never ends: hang.
RECURSIVE TokLoop(_, _, _)
RECURSIVE TokNext(_, _, _)
TokLoop(expr, i, tokens) ==
    IF i >= Len(expr) THEN [hang |-> FALSE, tokens |-> tokens]
    ELSE TokNext(expr, i, TokIter(expr, i, tokens))
TokNext(expr, i, r) ==
    IF r.i = i THEN [hang |-> TRUE, tokens |-> r.tokens]
    ELSE TokLoop(expr, r.i, r.tokens)

\* the return of tokenizeExpression (lines 302-306)
TokResult(r) ==
    IF r.hang THEN [st |-> "hang", tokens |-> <<>>, err |-> ""]
    ELSE IF Len(r.tokens) = 0
    THEN [st |-> "err", tokens |-> <<>>, err |-> "no tokens found in expression"]
    ELSE [st |-> "ok", tokens |-> r.tokens, err |-> ""]

\* tokenizeExpression: [st |-> "ok" | "err" | "hang", tokens, err]
tokenizeExpression(expr0) == TokResult(TokLoop(TrimSpace(expr0), 0, <<>>))

(***************************************************************************)
(* Literal parsing (expression.go, parseValue) and strconv                 *)
(***************************************************************************)
Digits == <<"0","1","2","3","4","5","6","7","8","9">>
IsDigit(c) == \E k \in 1..Len(Digits) : Digits[k] = c
DigitVal(c) == (CHOOSE k \in 1..Len(Digits) : Digits[k] = c) - 1

RECURSIVE DigitsVal(_)
DigitsVal(s) ==
    IF s = <<>> THEN 0
    ELSE 10 * DigitsVal(SubSeq(s, 1, Len(s) - 1)) + DigitVal(s[Len(s)])

AllDigits(s) == \A k \in 1..Len(s) : IsDigit(s[k])

HasSign(s) == Len(s) > 0 /\ s[1] \in {"+", "-"}
Unsigned(s) == IF HasSign(s) THEN Tail(s) ELSE s
Signed(s, n) == IF HasSign(s) /\ s[1] = "-" THEN 0 - n ELSE n

\* strconv.ParseInt(s, 10, 64): [ok, i]
ParseDigits(s, d) ==
    IF d # <<>> /\ AllDigits(d)
    THEN [ok |-> TRUE, i |-> Signed(s, DigitsVal(d))]
    ELSE [ok |-> FALSE, i |-> 0]
ParseInt(s) == ParseDigits(s, Unsigned(s))

\* strconv.ParseFloat(s, 64): [ok, f].  Decimal and hexadecimal text with
\* underscores, the infinities and NaN, as strconv reads them; ok is
\* err == nil.
HexLetters == <<"a","b","c","d","e","f">>
IsHexLetter(c) == \E k \in 1..Len(HexLetters) : HexLetters[k] = lower(c)
HexVal(c) == 9 + (CHOOSE k \in 1..Len(HexLetters) : HexLetters[k] = lower(c))

RECURSIVE Pow(_, _)
Pow(b, e) == IF e = 0 THEN 1 ELSE b * Pow(b, e - 1)

NoFloat == [ok |-> FALSE, f |-> FloatV(0, 0)]

\* special (atof.go): "inf", "infinity" with a sign or without, "nan"
\* without, in any case
special(s) ==
    IF ToLower(Unsigned(s)) \in {<<"i","n","f">>, <<"i","n","f","i","n","i","t","y">>}
    THEN [ok |-> TRUE, f |-> IF HasSign(s) /\ s[1] = "-" THEN NegInf ELSE PosInf]
    ELSE IF ToLower(s) = <<"n","a","n">> THEN [ok |-> TRUE, f |-> NaN]
    ELSE NoFloat

RECURSIVE underscoreScan(_, _, _, _)
\* the loop of underscoreOK: saw is "0" after a digit, "_" after an
\* underscore, "!" after anything else, "^" at the start
underscoreScan(s, i, saw, hex) ==
    IF i > Len(s) THEN saw # "_"
    ELSE IF IsDigit(s[i]) \/ (hex /\ IsHexLetter(s[i])) THEN underscoreScan(s, i + 1, "0", hex)
    ELSE IF s[i] = "_" THEN saw = "0" /\ underscoreScan(s, i + 1, "_", hex)
    ELSE saw # "_" /\ underscoreScan(s, i + 1, "!", hex)
\* underscoreOK (atoi.go) after the optional sign
underscoreUnsigned(u) ==
    IF Len(u) >= 2 /\ u[1] = "0" /\ lower(u[2]) \in {"b", "o", "x"}
    THEN underscoreScan(u, 3, "0", lower(u[2]) = "x")
    ELSE underscoreScan(u, 1, "^", FALSE)
underscoreOK(s) == underscoreUnsigned(Unsigned(s))

RECURSIVE Zeros(_)
Zeros(n) == IF n <= 0 THEN <<>> ELSE <<"0">> \o Zeros(n - 1)
RECURSIVE DigitsLess(_, _)
\* a < b for digit strings of one length
DigitsLess(a, b) ==
    IF a = <<>> THEN FALSE
    ELSE IF Head(a) # Head(b) THEN DigitVal(Head(a)) < DigitVal(Head(b))
    ELSE DigitsLess(Tail(a), Tail(b))
RECURSIVE SkipZeros(_)
\* the digits without their leading zeros
SkipZeros(d) == IF d # <<>> /\ Head(d) = "0" THEN SkipZeros(Tail(d)) ELSE d
RECURSIVE TrimZeros(_)
\* the digits without their trailing zeros
TrimZeros(d) ==
    IF d # <<>> /\ d[Len(d)] = "0" THEN TrimZeros(SubSeq(d, 1, Len(d) - 1)) ELSE d

\* The rounding of a decimal to the nearest float64 where it leaves the
\* decimal: the first 17 digits of 2^1024 - 2^970 (times 10^308), from which
\* on the result is infinite, of 2^-1075 (times 10^-324), up to which it is 0,
\* and of 3 * 2^-1075, up to which it is the least float64 5e-324 and beyond
\* which, below 1e-323, it is the next one, 1e-323.  The digits of the three
\* go on after the 17th.
HalfwayToInf == <<"1","7","9","7","6","9","3","1","3","4","8","6","2","3","1","5","8">>
HalfLeast == <<"2","4","7","0","3","2","8","2","2","9","2","0","6","2","3","2","7">>
ThreeHalfLeast == <<"7","4","1","0","9","8","4","6","8","7","6","1","8","6","9","8","1">>
First17(d) == IF Len(d) >= 17 THEN SubSeq(d, 1, 17) ELSE d \o Zeros(17 - Len(d))
\* the digits d, without leading or trailing zeros, against those of a bound
\* at the same exponent: "close" when digits after the 17th decide
Against(d, bound) ==
    IF DigitsLess(First17(d), bound) THEN "below"
    ELSE IF DigitsLess(bound, First17(d)) THEN "above"
    ELSE IF Len(d) <= 17 THEN "below"
    ELSE "close"
\* the least float64 after rounding, for d * 10^-324 with d in [1, 10)
roundLeast(d) ==
    IF Against(d, HalfLeast) = "below" THEN FloatV(0, 0)
    ELSE IF Against(d, HalfLeast) = "close" THEN OutsideModel
    ELSE IF Against(d, ThreeHalfLeast) = "below" THEN FloatV(5, 324)
    ELSE IF Against(d, ThreeHalfLeast) = "close" THEN OutsideModel
    ELSE FloatV(1, 323)
\* the numerators of the model's float64 values have at most MaxDigits digits
MaxDigits == 9
\* the float64 nearest to d[1].d[2]... * 10^exp10 for digits d without leading
\* or trailing zeros: a decimal of few digits in the normal range is the
\* shortest decimal of its float64 and stands for it; the other subnormal
\* values, and what has more digits than the model's numerators, are outside
\* the model
roundDecimal(d, exp10) ==
    IF exp10 > 308 THEN PosInf
    ELSE IF exp10 = 308
    THEN (IF Against(d, HalfwayToInf) = "above" THEN PosInf ELSE OutsideModel)
    ELSE IF exp10 < -324 THEN FloatV(0, 0)
    ELSE IF exp10 = -324 THEN roundLeast(d)
    ELSE IF exp10 < -307 \/ exp10 >= MaxDigits \/ Len(d) > MaxDigits THEN OutsideModel
    ELSE IF exp10 >= Len(d) - 1 THEN FloatV(DigitsVal(d) * Pow10(exp10 - Len(d) + 1), 0)
    ELSE FloatV(DigitsVal(d), Len(d) - 1 - exp10)

RECURSIVE NatDigits(_)
\* the decimal digits of a positive integer
NatDigits(n) ==
    IF n < 10 THEN <<Digits[n + 1]>> ELSE Append(NatDigits(n \div 10), Digits[(n % 10) + 1])

\* the float64 of m * base^-frac * 10^e, for base 16 of m * 16^-frac * 2^e;
\* +Inf where atof reports a value out of range.  A hexadecimal text that
\* is far from 1 is outside the model.
FloatValue(m, base, frac, e) ==
    IF m = 0 THEN FloatV(0, 0)
    ELSE IF base = 10
    THEN roundDecimal(TrimZeros(NatDigits(m)), Len(NatDigits(m)) - 1 + e - frac)
    ELSE IF e - 4 * frac > 16 \/ 4 * frac - e > 8 THEN OutsideModel
    ELSE (IF e - 4 * frac >= 0 THEN FloatV(m * Pow(2, e - 4 * frac), 0)
          ELSE NormFloat(m * Pow(5, 4 * frac - e), 4 * frac - e))
Negate(f) == [f EXCEPT !.n = 0 - f.n]

Mant(i, sawdot, sawdigits, m, frac) ==
    [i |-> i, sawdot |-> sawdot, sawdigits |-> sawdigits, m |-> m, frac |-> frac]
RECURSIVE readMantissa(_, _, _, _, _, _, _)
\* the digit loop of readFloat: underscores are skipped, a second point or
\* any other byte ends it; frac counts the digits after the point
readMantissa(s, i, base, sawdot, sawdigits, m, frac) ==
    IF i > Len(s) THEN Mant(i, sawdot, sawdigits, m, frac)
    ELSE IF s[i] = "_" THEN readMantissa(s, i + 1, base, sawdot, sawdigits, m, frac)
    ELSE IF s[i] = "."
    THEN (IF sawdot THEN Mant(i, sawdot, sawdigits, m, frac)
          ELSE readMantissa(s, i + 1, base, TRUE, sawdigits, m, frac))
    ELSE IF IsDigit(s[i])
    THEN readMantissa(s, i + 1, base, sawdot, TRUE, m * base + DigitVal(s[i]),
                      frac + (IF sawdot THEN 1 ELSE 0))
    ELSE IF base = 16 /\ IsHexLetter(s[i])
    THEN readMantissa(s, i + 1, base, sawdot, TRUE, m * base + HexVal(s[i]),
                      frac + (IF sawdot THEN 1 ELSE 0))
    ELSE Mant(i, sawdot, sawdigits, m, frac)

Expo(ok, i, e) == [ok |-> ok, i |-> i, e |-> e]
RECURSIVE exponentDigits(_, _, _, _)
\* the digits of the exponent, underscores skipped
exponentDigits(s, i, esign, e) ==
    IF i <= Len(s) /\ s[i] = "_" THEN exponentDigits(s, i + 1, esign, e)
    ELSE IF i <= Len(s) /\ IsDigit(s[i])
    THEN exponentDigits(s, i + 1, esign, IF e < 10000 THEN e * 10 + DigitVal(s[i]) ELSE e)
    ELSE Expo(TRUE, i, e * esign)
exponentSigned(s, i, esign) ==
    IF i > Len(s) \/ ~IsDigit(s[i]) THEN Expo(FALSE, i, 0)
    ELSE exponentDigits(s, i, esign, 0)
\* the optional exponent of readFloat, i at the byte after the mantissa
readExponent(s, i, base) ==
    IF i <= Len(s) /\ lower(s[i]) = (IF base = 16 THEN "p" ELSE "e")
    THEN (IF i + 1 > Len(s) THEN Expo(FALSE, i + 1, 0)
          ELSE IF s[i + 1] = "+" THEN exponentSigned(s, i + 2, 1)
          ELSE IF s[i + 1] = "-" THEN exponentSigned(s, i + 2, -1)
          ELSE exponentSigned(s, i + 1, 1))
    ELSE Expo(base # 16, i, 0)

\* readFloat succeeded and consumed all of s; a value out of range comes
\* with ErrRange
floatRead(s, base, mt, ex) ==
    IF /\ ex.ok
       /\ ex.i = Len(s) + 1
       /\ (Contains(s, "_") => underscoreOK(s))
    THEN [ok |-> IsFinite(FloatValue(mt.m, base, mt.frac, ex.e)),
          f |-> IF HasSign(s) /\ s[1] = "-" THEN Negate(FloatValue(mt.m, base, mt.frac, ex.e))
                ELSE FloatValue(mt.m, base, mt.frac, ex.e)]
    ELSE NoFloat
floatMantissa(s, base, mt) ==
    IF ~mt.sawdigits THEN NoFloat ELSE floatRead(s, base, mt, readExponent(s, mt.i, base))
\* readFloat on the text u after the sign
readUnsigned(s, u, off) ==
    IF Len(u) > 2 /\ u[1] = "0" /\ lower(u[2]) = "x"
    THEN floatMantissa(s, 16, readMantissa(s, off + 3, 16, FALSE, FALSE, 0, 0))
    ELSE floatMantissa(s, 10, readMantissa(s, off + 1, 10, FALSE, FALSE, 0, 0))
readFloat(s) == readUnsigned(s, Unsigned(s), IF HasSign(s) THEN 1 ELSE 0)
ParseFloat(s) == IF special(s).ok THEN special(s) ELSE readFloat(s)

(***************************************************************************)
(* strconv.Unquote and strconv.UnquoteChar (quote.go)                      *)
(***************************************************************************)
IsHex(c) == IsDigit(c) \/ IsHexLetter(c)
unhex(c) == IF IsDigit(c) THEN DigitVal(c) ELSE HexVal(c)
IsOctal(c) == IsDigit(c) /\ DigitVal(c) <= 7
MaxRune == 1114111

RECURSIVE HexFold(_, _)
\* v = v<<4 | x over the hexadecimal digits of d; what exceeds MaxRune stays
\* above it, where a rune of 32 bits is too large or negative
HexFold(d, v) ==
    IF d = <<>> THEN v
    ELSE HexFold(Tail(d), IF v > MaxRune THEN v ELSE v * 16 + unhex(Head(d)))

\* the result of UnquoteChar: [ok, value, multibyte, tail]
CharErr == [ok |-> FALSE, value |-> 0, multibyte |-> FALSE, tail |-> <<>>]
Char(value, multibyte, tail) ==
    [ok |-> TRUE, value |-> value, multibyte |-> multibyte, tail |-> tail]

\* the escapes of one letter and their values
SimpleEscapes == {"a", "b", "f", "n", "r", "t", "v", "\\"}
SimpleEscape(c) ==
    IF c = "a" THEN 7 ELSE IF c = "b" THEN 8 ELSE IF c = "f" THEN 12
    ELSE IF c = "n" THEN 10 ELSE IF c = "r" THEN 13 ELSE IF c = "t" THEN 9
    ELSE IF c = "v" THEN 11 ELSE 92

\* case 'x', 'u', 'U' with n digits expected in s, the text after the letter
hexEscape(c, s, n) ==
    IF Len(s) < n \/ \E j \in 1..n : ~IsHex(s[j]) THEN CharErr
    ELSE IF c = "x" THEN Char(HexFold(SubSeq(s, 1, n), 0), FALSE, SubSeq(s, n + 1, Len(s)))
    ELSE IF ~ValidRune(HexFold(SubSeq(s, 1, n), 0)) THEN CharErr
    ELSE Char(HexFold(SubSeq(s, 1, n), 0), TRUE, SubSeq(s, n + 1, Len(s)))
\* case '0' .. '7': one digit already, two more
octalEscape(c, s) ==
    IF Len(s) < 2 \/ ~IsOctal(s[1]) \/ ~IsOctal(s[2]) THEN CharErr
    ELSE IF DigitVal(c) * 64 + DigitVal(s[1]) * 8 + DigitVal(s[2]) > 255 THEN CharErr
    ELSE Char(DigitVal(c) * 64 + DigitVal(s[1]) * 8 + DigitVal(s[2]), FALSE,
              SubSeq(s, 3, Len(s)))
\* the switch on the byte c after the backslash, s the text after c
escapeChar(c, s, quote) ==
    IF c \in SimpleEscapes THEN Char(SimpleEscape(c), FALSE, s)
    ELSE IF c = "x" THEN hexEscape(c, s, 2)
    ELSE IF c = "u" THEN hexEscape(c, s, 4)
    ELSE IF c = "U" THEN hexEscape(c, s, 8)
    ELSE IF IsOctal(c) THEN octalEscape(c, s)
    ELSE IF c \in {"'", "\""} THEN (IF c # quote THEN CharErr ELSE Char(Ord(c), FALSE, s))
    ELSE CharErr
UnquoteChar(s, quote) ==
    IF s = <<>> THEN CharErr
    ELSE IF s[1] = quote /\ quote \in {"'", "\""} THEN CharErr
    ELSE IF Ord(s[1]) >= 128
    THEN Char(DecodeRune(s).r, TRUE, SubSeq(s, DecodeRune(s).size + 1, Len(s)))
    ELSE IF s[1] # "\\" THEN Char(Ord(s[1]), FALSE, Tail(s))
    ELSE IF Len(s) <= 1 THEN CharErr
    ELSE escapeChar(s[2], SubSeq(s, 3, Len(s)), quote)

\* the result of unquote: [ok, out, rem]
NotQuoted(in) == [ok |-> FALSE, out |-> <<>>, rem |-> in]
\* the bytes unquote appends for the character ch
charBytes(ch) ==
    IF ch.value < 128 \/ ~ch.multibyte THEN <<Chr(ch.value)>> ELSE EncodeRune(ch.value)

\* the terminating quote is verified and skipped
unquoteEnd(in0, in, quote, buf) ==
    IF ~(Len(in) > 0 /\ in[1] = quote) THEN NotQuoted(in0)
    ELSE [ok |-> TRUE, out |-> buf, rem |-> Tail(in)]
RECURSIVE unquoteLoop(_, _, _, _)
unquoteNext(in0, in, quote, buf, ch) ==
    IF in[1] = "\n" \/ ~ch.ok THEN NotQuoted(in0)
    ELSE IF quote = "'" THEN unquoteEnd(in0, ch.tail, quote, buf \o charBytes(ch))
    ELSE unquoteLoop(in0, ch.tail, quote, buf \o charBytes(ch))
\* for len(in) > 0 && in[0] != quote { ... }
unquoteLoop(in0, in, quote, buf) ==
    IF Len(in) > 0 /\ in[1] # quote
    THEN unquoteNext(in0, in, quote, buf, UnquoteChar(in, quote))
    ELSE unquoteEnd(in0, in, quote, buf)

\* the text between the quotes needs no unescaping and is valid
plainInner(quote, inner) ==
    /\ ~Contains(inner, "\\")
    /\ ~Contains(inner, "\n")
    /\ IF quote = "\"" THEN ValidString(inner)
       ELSE /\ DecodeRune(inner).size = Len(inner)
            /\ DecodeRune(inner) # Rune(RuneError, 1)
\* unquote(in, true) for the quotes ' and ", end the position after the
\* first quote that follows the opening one
unquoteQuoted(in, quote, end) ==
    IF plainInner(quote, SubSeq(in, 2, end - 1))
    THEN [ok |-> TRUE, out |-> SubSeq(in, 2, end - 1), rem |-> SubSeq(in, end + 1, Len(in))]
    ELSE unquoteLoop(in, Tail(in), quote, <<>>)
\* a raw string: the carriage returns are discarded
unquoteRaw(in, end) ==
    [ok |-> TRUE,
     out |-> SelectSeq(SubSeq(in, 2, end - 1), LAMBDA c : c # "\r"),
     rem |-> SubSeq(in, end + 1, Len(in))]
unquote(in) ==
    IF Len(in) < 2 THEN NotQuoted(in)
    ELSE IF ~Contains(Tail(in), in[1]) THEN NotQuoted(in)
    ELSE IF in[1] = "\\x60" THEN unquoteRaw(in, 1 + IndexAny(Tail(in), {in[1]}))
    ELSE IF in[1] \in {"\"", "'"}
    THEN unquoteQuoted(in, in[1], 1 + IndexAny(Tail(in), {in[1]}))
    ELSE NotQuoted(in)
\* strconv.Unquote(s): [ok, s]
UnquoteAll(u) == [ok |-> u.ok /\ u.rem = <<>>, s |-> IF u.rem = <<>> THEN u.out ELSE <<>>]
Unquote(s) == UnquoteAll(unquote(s))

\* parseValue (lines 356-396); its error result is always nil.
\* the integer attempt and the string fallback (lines 386-395)
parseInteger(s, i) == IF i.ok THEN Int64V(i.i) ELSE StrV(s)
\* the float attempt (lines 378-383), made only when s contains "."
parseNumber(s, f) == IF f.ok THEN f.f ELSE parseInteger(s, ParseInt(s))
\* the quoted-string branch (lines 371-376)
parseQuoted(s, unquoted) ==
    IF unquoted.ok THEN StrV(unquoted.s) ELSE StrV(Slice(s, 1, Len(s) - 1))
\* the body after the TrimSpace of line 357
parseTrimmed(s) ==
    IF s = <<"n","u","l","l">> \/ s = <<"n","i","l">> THEN NilV
    ELSE IF s = <<"t","r","u","e">> THEN BoolV(TRUE)
    ELSE IF s = <<"f","a","l","s","e">> THEN BoolV(FALSE)
    ELSE IF Len(s) >= 2 /\ (s[1] = "\"" \/ s[1] = "'") /\ s[1] = s[Len(s)]
    THEN parseQuoted(s, Unquote(s))
    ELSE IF Contains(s, ".") THEN parseNumber(s, ParseFloat(s))
    ELSE parseInteger(s, ParseInt(s))
parseValue(s0) == parseTrimmed(TrimSpace(s0))

(***************************************************************************)
(* Comparison (expression.go, lines 398-502)                               *)
(***************************************************************************)
IsIntKind(v) == v.k \in {"int", "int64"}

\* deepEqual (lines 411-462)
deepEqual(a, b) ==
    IF a.k = "nil" /\ b.k = "nil" THEN TRUE
    ELSE IF a.k = "nil" \/ b.k = "nil" THEN FALSE
    ELSE IF a.k = "bool" THEN b.k = "bool" /\ a.b = b.b
    ELSE IF a.k = "string" THEN b.k = "string" /\ a.s = b.s
    ELSE IF a.k = "float64"
    THEN \/ b.k = "float64" /\ FloatEq(a, b)
         \/ IsIntKind(b) /\ FloatEq(a, IntToFloat(b.i))
    ELSE IF IsIntKind(a)
    THEN \/ IsIntKind(b) /\ a.i = b.i
         \/ b.k = "float64" /\ FloatEq(IntToFloat(a.i), b)
    ELSE FALSE

\* toFloat64 (lines 486-502): an option
toFloat64(v) ==
    IF v.k = "float64" THEN Some(v)
    ELSE IF IsIntKind(v) THEN Some(IntToFloat(v.i))
    ELSE None

Res(ok, val, err) == [ok |-> ok, val |-> val, err |-> err]

\* compareNumeric (lines 464-484), l and r the results of toFloat64
compareFloats(l, r, op) ==
    IF l = None \/ r = None
    THEN Res(FALSE, FALSE, Msg("cannot compare non-numeric values with %s", <<StrV(op)>>))
    ELSE IF op = <<">">> THEN Res(TRUE, FloatLess(Get(r), Get(l)), NoErr)
    ELSE IF op = <<"<">> THEN Res(TRUE, FloatLess(Get(l), Get(r)), NoErr)
    ELSE IF op = <<">","=">> THEN Res(TRUE, FloatLessEq(Get(r), Get(l)), NoErr)
    ELSE IF op = <<"<","=">> THEN Res(TRUE, FloatLessEq(Get(l), Get(r)), NoErr)
    ELSE Res(FALSE, FALSE, Msg("unsupported operator: %s", <<StrV(op)>>))
\* an ordering of non-numeric values that is false instead of an error: a
\* faulty variant of compareNumeric
compareNumericLenient(left, right, op) ==
    IF toFloat64(left) = None \/ toFloat64(right) = None THEN Res(TRUE, FALSE, NoErr)
    ELSE compareFloats(toFloat64(left), toFloat64(right), op)
compareNumeric(left, right, op) == compareFloats(toFloat64(left), toFloat64(right), op)

\* compareValues (lines 398-409)
compareValues(left, right, op) ==
    IF op = <<"=","=">> THEN Res(TRUE, deepEqual(left, right), NoErr)
    ELSE IF op = <<"!","=">> THEN Res(TRUE, ~deepEqual(left, right), NoErr)
    ELSE IF op \in {<<">">>, <<"<">>, <<">","=">>, <<"<","=">>}
    THEN compareNumeric(left, right, op)
    ELSE Res(FALSE, FALSE, Msg("unsupported operator: %s", <<StrV(op)>>))

\* evaluateLiteral (lines 310-332); obj is a function from names to values
literalValue(lit, obj) ==
    IF lit = <<"t","r","u","e">> THEN Res(TRUE, TRUE, NoErr)
    ELSE IF lit = <<"f","a","l","s","e">> THEN Res(TRUE, FALSE, NoErr)
    ELSE IF lit \in DOMAIN obj
    THEN IF obj[lit].k = "bool" THEN Res(TRUE, obj[lit].b, NoErr)
         ELSE Res(TRUE, obj[lit].k # "nil", NoErr)
    ELSE Res(TRUE, FALSE, NoErr)
evaluateLiteral(lit0, obj) == literalValue(TrimSpace(lit0), obj)

\* a missing field compared as if it were present and nil: a faulty variant of
\* comparisonValue
comparisonValueMissingAsNil(left, op, right, obj) ==
    compareValues(IF left \in DOMAIN obj THEN obj[left] ELSE NilV, parseValue(right), op)

\* evaluateComparison (lines 335-354)
comparisonValue(left, op, right, obj) ==
    IF left \notin DOMAIN obj
    THEN IF right = <<"n","u","l","l">> \/ right = <<"n","i","l">>
         THEN Res(TRUE, op = <<"=","=">>, NoErr)
         ELSE Res(TRUE, FALSE, NoErr)
    ELSE compareValues(obj[left], parseValue(right), op)
evaluateComparison(left0, op, right0, obj) ==
    comparisonValue(TrimSpace(left0), op, TrimSpace(right0), obj)

(***************************************************************************)
(* Recursive-descent parser (expression.go, lines 59-170).  A parse result *)
(* is the (bool, error) pair together with the parser's position.          *)
(***************************************************************************)
PRes(ok, val, pos, err) == [ok |-> ok, val |-> val, pos |-> pos, err |-> err]
FromRes(c, pos) == PRes(c.ok, c.val, pos, c.err)
TokArg(tok) == [k |-> "token", typ |-> tok.typ, value |-> tok.value]

\* p.peek(): an option
peek(tokens, pos) == IF pos >= Len(tokens) THEN None ELSE Some(tokens[pos + 1])
\* p.advance()
advance(tokens, pos) == IF pos < Len(tokens) THEN pos + 1 ELSE pos

PeekIs(tokens, pos, typ) == pos < Len(tokens) /\ tokens[pos + 1].typ = typ

\* The parser's mutually recursive methods are one recursive operator: fn names
\* the method, left is the value accumulated by a loop of parseOr or parseAnd.
RECURSIVE parse(_, _, _, _, _)

\* the error check after the first operand of parseOr / parseAnd (lines 85-87,
\* 104-106), then the loop named by fn
parseLoop(fn, tokens, obj, l) ==
    IF ~l.ok THEN l ELSE parse(fn, tokens, obj, l.val, l.pos)
\* an OR whose left operand is true passing over the error of its right
\* operand: a faulty variant of parseOrStep
parseOrStepShortCircuit(tokens, obj, left, r) ==
    IF left THEN parse("parseOrLoop", tokens, obj, TRUE, r.pos)
    ELSE IF ~r.ok THEN r
    ELSE parse("parseOrLoop", tokens, obj, r.val, r.pos)
\* the body of parseOr's loop after its right operand r (lines 92-96)
parseOrStep(tokens, obj, left, r) ==
    IF ~r.ok THEN r ELSE parse("parseOrLoop", tokens, obj, left \/ r.val, r.pos)
\* AND evaluated as OR: a faulty variant of parseAndStep
parseAndStepAsOr(tokens, obj, left, r) ==
    IF ~r.ok THEN r ELSE parse("parseAndLoop", tokens, obj, left \/ r.val, r.pos)
\* the body of parseAnd's loop after its right operand r (lines 111-115)
parseAndStep(tokens, obj, left, r) ==
    IF ~r.ok THEN r ELSE parse("parseAndLoop", tokens, obj, left /\ r.val, r.pos)
\* parseComparison after the parenthesised expression r (lines 131-139)
parseParenClose(tokens, r) ==
    IF ~r.ok THEN r
    ELSE IF ~PeekIs(tokens, r.pos, "tokenRParen")
    THEN PRes(FALSE, FALSE, r.pos, Msg("expected closing parenthesis", <<>>))
    ELSE PRes(TRUE, r.val, advance(tokens, r.pos), NoErr)
\* parseComparison after the operator op, at the right operand (lines 157-165)
parseRightOperand(tokens, obj, lit, op, pos) ==
    IF ~PeekIs(tokens, pos, "tokenLiteral")
    THEN PRes(FALSE, FALSE, pos,
              Msg("expected right operand for operator %s", <<StrV(op)>>))
    ELSE FromRes(evaluateComparison(lit, op, tokens[pos + 1].value, obj),
                 advance(tokens, pos))
\* parseComparison after the literal lit (lines 150-169)
parseAfterLiteral(tokens, obj, lit, pos) ==
    IF PeekIs(tokens, pos, "tokenOperator")
    THEN parseRightOperand(tokens, obj, lit, tokens[pos + 1].value,
                           advance(tokens, pos))
    ELSE FromRes(evaluateLiteral(lit, obj), pos)
\* parseComparison at the token tok (lines 127-169)
parseAtToken(tokens, obj, pos, tok) ==
    IF tok.typ = "tokenLParen"
    THEN parseParenClose(tokens,
                         parse("parseOr", tokens, obj, FALSE, advance(tokens, pos)))
    ELSE IF tok.typ # "tokenLiteral"
    THEN PRes(FALSE, FALSE, pos,
              Msg("expected literal or comparison, got %v", <<TokArg(tok)>>))
    ELSE parseAfterLiteral(tokens, obj, tok.value, advance(tokens, pos))

parse(fn, tokens, obj, left, pos) ==
    CASE fn = "parseOr" ->
           \* parseOr (lines 83-100), to the head of its loop
           parseLoop("parseOrLoop", tokens, obj,
                     parse("parseAnd", tokens, obj, FALSE, pos))
      [] fn = "parseOrLoop" ->
           IF PeekIs(tokens, pos, "tokenOr")
           THEN parseOrStep(tokens, obj, left,
                            parse("parseAnd", tokens, obj, FALSE, advance(tokens, pos)))
           ELSE PRes(TRUE, left, pos, NoErr)
      [] fn = "parseAnd" ->
           \* parseAnd (lines 102-119), to the head of its loop
           parseLoop("parseAndLoop", tokens, obj,
                     parse("parseComparison", tokens, obj, FALSE, pos))
      [] fn = "parseAndLoop" ->
           IF PeekIs(tokens, pos, "tokenAnd")
           THEN parseAndStep(tokens, obj, left,
                             parse("parseComparison", tokens, obj, FALSE,
                                   advance(tokens, pos)))
           ELSE PRes(TRUE, left, pos, NoErr)
      [] OTHER ->
           \* parseComparison (lines 121-170)
           IF peek(tokens, pos) = None
           THEN PRes(FALSE, FALSE, pos, Msg("unexpected end of expression", <<>>))
           ELSE parseAtToken(tokens, obj, pos, tokens[pos + 1])

parseOr(tokens, obj, pos) == parse("parseOr", tokens, obj, FALSE, pos)
parseAnd(tokens, obj, pos) == parse("parseAnd", tokens, obj, FALSE, pos)
parseComparison(tokens, obj, pos) == parse("parseComparison", tokens, obj, FALSE, pos)

\* parseExpression (lines 78-81)
parseExpression(tokens, obj, pos) == parseOr(tokens, obj, pos)

\* the result returned with tokens left over: a faulty variant of evalParsed
evalParsedIgnoresRest(tokens, r) ==
    IF ~r.ok THEN [st |-> "err", val |-> FALSE, err |-> r.err]
    ELSE [st |-> "ok", val |-> r.val, err |-> NoErr]

\* evalExpression (lines 19-41): [st |-> "ok" | "err" | "hang", val, err].
\* the checks after the parse (lines 34-40)
evalParsed(tokens, r) ==
    IF ~r.ok THEN [st |-> "err", val |-> FALSE, err |-> r.err]
    ELSE IF r.pos < Len(tokens)
    THEN [st |-> "err", val |-> FALSE,
          err |-> Msg("unexpected token at position %d: %v",
                      <<IntV(r.pos), TokArg(tokens[r.pos + 1])>>)]
    ELSE [st |-> "ok", val |-> r.val, err |-> NoErr]
\* the check after the tokenizer (lines 27-29), then the parse
evalTokens(t, obj) ==
    IF t.st = "hang" THEN [st |-> "hang", val |-> FALSE, err |-> NoErr]
    ELSE IF t.st = "err"
    THEN [st |-> "err", val |-> FALSE, err |-> Msg(t.err, <<>>)]
    ELSE evalParsed(t.tokens, parseExpression(t.tokens, obj, 0))
\* the body after the TrimSpace of line 20
evalTrimmed(expr, obj) ==
    IF expr = <<>>
    THEN [st |-> "err", val |-> FALSE, err |-> Msg("empty expression", <<>>)]
    ELSE evalTokens(tokenizeExpression(expr), obj)
evalExpression(expr0, obj) == evalTrimmed(TrimSpace(expr0), obj)
(***************************************************************************)
(* Regular expressions.  A pattern is parsed to a tree as regexp/syntax    *)
(* parses it under the flags syntax.Perl, and the tree is matched against  *)
(* the runes of the text.  Only whether some match exists is computed, so  *)
(* that captures, greediness and the order of alternatives play no part.   *)
(* Outside the model, where evaluation stops: the Unicode tables (\p,      *)
(* case folding of letters from U+0080 on) and patterns of MaxPattern      *)
(* bytes or more, where the parser's limits on size and depth begin.       *)
(***************************************************************************)
MaxPattern == 1000

\* a set of runes: the union of ranges <<lo, hi>>, folded for case or not,
\* or its complement
Item(ranges, neg, fold) == [ranges |-> ranges, neg |-> neg, fold |-> fold]
\* the nodes of a syntax tree
CharClass(items, neg) == [op |-> "class", items |-> items, neg |-> neg]
EmptyMatch == [op |-> "empty"]
EmptyWidth(kind) == [op |-> "assert", kind |-> kind]
Repetition(op, sub, min, max) == [op |-> op, sub |-> <<sub>>, min |-> min, max |-> max]
\* the pseudo-operators of the parser's stack
LeftParen(fl) == [op |-> "(", fl |-> fl]
VerticalBar == [op |-> "|"]
IsPseudo(re) == re.op \in {"(", "|"}

InRanges(ranges, r) == \E k \in 1..Len(ranges) : ranges[k][1] <= r /\ r <= ranges[k][2]
\* the runes equal to r under simple case folding, for r in ASCII and for
\* the two runes beyond it that fold to an ASCII letter
KelvinSign == 8490
LongS == 383
Orbit(r) ==
    IF r \in {75, 107, KelvinSign} THEN {75, 107, KelvinSign}
    ELSE IF r \in {83, 115, LongS} THEN {83, 115, LongS}
    ELSE IF r >= 65 /\ r <= 90 THEN {r, r + 32}
    ELSE IF r >= 97 /\ r <= 122 THEN {r, r - 32}
    ELSE {r}
InFolded(ranges, r) ==
    IF r < 128 \/ r \in {KelvinSign, LongS} THEN \E q \in Orbit(r) : InRanges(ranges, q)
    ELSE IF InRanges(ranges, r) THEN TRUE
    ELSE IF \A k \in 1..Len(ranges) : ranges[k][2] < 128 THEN FALSE
    ELSE OutsideModel
InItem(item, r) ==
    (IF item.fold THEN InFolded(item.ranges, r) ELSE InRanges(item.ranges, r)) # item.neg
InClass(re, r) == (\E k \in 1..Len(re.items) : InItem(re.items[k], r)) # re.neg

\* the ASCII word characters of \b, \B and \w
WordRanges == <<<<48, 57>>, <<65, 90>>, <<95, 95>>, <<97, 122>>>>
IsWordChar(r) == InRanges(WordRanges, r)
\* the empty-width assertions at position p (0-based) of the runes t
AssertHolds(kind, t, p) ==
    IF kind = "bot" THEN p = 0
    ELSE IF kind = "eot" THEN p = Len(t)
    ELSE IF kind = "bol" THEN p = 0 \/ t[p] = 10
    ELSE IF kind = "eol" THEN p = Len(t) \/ t[p + 1] = 10
    ELSE ((p > 0 /\ IsWordChar(t[p])) # (p < Len(t) /\ IsWordChar(t[p + 1])))
           = (kind = "wb")

RECURSIVE Ends(_, _, _)
RECURSIVE EndsConcat(_, _, _)
RECURSIVE EndsRepeat(_, _, _, _, _)
RECURSIVE EndsClosure(_, _, _, _)
\* the positions where a match of re that starts at a position of P ends
Ends(re, t, P) ==
    IF P = {} THEN {}
    ELSE IF re.op = "class" THEN {p + 1 : p \in {q \in P : q < Len(t) /\ InClass(re, t[q + 1])}}
    ELSE IF re.op = "empty" THEN P
    ELSE IF re.op = "assert" THEN {p \in P : AssertHolds(re.kind, t, p)}
    ELSE IF re.op = "cat" THEN EndsConcat(re.subs, t, P)
    ELSE IF re.op = "alt" THEN UNION {Ends(re.subs[k], t, P) : k \in 1..Len(re.subs)}
    ELSE IF re.op = "star" THEN EndsClosure(re.sub[1], t, P, P)
    ELSE IF re.op = "plus" THEN EndsRepeat(re.sub[1], t, P, 1, -1)
    ELSE IF re.op = "quest" THEN P \cup Ends(re.sub[1], t, P)
    ELSE EndsRepeat(re.sub[1], t, P, re.min, re.max)
EndsConcat(subs, t, P) ==
    IF subs = <<>> THEN P ELSE EndsConcat(Tail(subs), t, Ends(Head(subs), t, P))
\* sub at least min times and at most max times, any number for max = -1
EndsRepeat(sub, t, P, min, max) ==
    IF P = {} THEN {}
    ELSE IF min > 0
    THEN EndsRepeat(sub, t, Ends(sub, t, P), min - 1, IF max < 0 THEN max ELSE max - 1)
    ELSE IF max = 0 THEN P
    ELSE IF max < 0 THEN EndsClosure(sub, t, P, P)
    ELSE P \cup EndsRepeat(sub, t, Ends(sub, t, P), 0, max - 1)
\* sub any number of times: all holds the ends found, new those not yet
\* continued
EndsClosure(sub, t, all, new) ==
    IF new = {} THEN all
    ELSE EndsClosure(sub, t, all \cup Ends(sub, t, new), Ends(sub, t, new) \ all)

\* the unanchored search of MatchString on the runes t
Matches(re, t) == Ends(re, t, 0..Len(t)) # {}

(***************************************************************************)
(* regexp/syntax: the parser (parse.go)                                    *)
(***************************************************************************)
\* the flags syntax.Perl that a group can change: FoldCase, OneLine, DotNL
PerlFlags == [fold |-> FALSE, oneline |-> TRUE, dotnl |-> FALSE]

\* "invalid character class range"
ErrInvalidCharRange ==
    <<"i","n","v","a","l","i","d"," ","c","h","a","r","a","c","t","e","r"," ",
      "c","l","a","s","s"," ","r","a","n","g","e">>
\* "invalid escape sequence"
ErrInvalidEscape ==
    <<"i","n","v","a","l","i","d"," ","e","s","c","a","p","e"," ",
      "s","e","q","u","e","n","c","e">>
\* "invalid named capture"
ErrInvalidNamedCapture ==
    <<"i","n","v","a","l","i","d"," ","n","a","m","e","d"," ","c","a","p","t","u","r","e">>
\* "invalid or unsupported Perl syntax"
ErrInvalidPerlOp ==
    <<"i","n","v","a","l","i","d"," ","o","r"," ","u","n","s","u","p","p","o","r","t","e","d",
      " ","P","e","r","l"," ","s","y","n","t","a","x">>
\* "invalid nested repetition operator"
ErrInvalidRepeatOp ==
    <<"i","n","v","a","l","i","d"," ","n","e","s","t","e","d"," ",
      "r","e","p","e","t","i","t","i","o","n"," ","o","p","e","r","a","t","o","r">>
\* "invalid repeat count"
ErrInvalidRepeatSize ==
    <<"i","n","v","a","l","i","d"," ","r","e","p","e","a","t"," ","c","o","u","n","t">>
\* "invalid UTF-8"
ErrInvalidUTF8 == <<"i","n","v","a","l","i","d"," ","U","T","F","-","8">>
\* "missing closing ]"
ErrMissingBracket == <<"m","i","s","s","i","n","g"," ","c","l","o","s","i","n","g"," ","]">>
\* "missing closing )"
ErrMissingParen == <<"m","i","s","s","i","n","g"," ","c","l","o","s","i","n","g"," ",")">>
\* "missing argument to repetition operator"
ErrMissingRepeatArgument ==
    <<"m","i","s","s","i","n","g"," ","a","r","g","u","m","e","n","t"," ","t","o"," ",
      "r","e","p","e","t","i","t","i","o","n"," ","o","p","e","r","a","t","o","r">>
\* "trailing backslash at end of expression"
ErrTrailingBackslash ==
    <<"t","r","a","i","l","i","n","g"," ","b","a","c","k","s","l","a","s","h"," ","a","t"," ",
      "e","n","d"," ","o","f"," ","e","x","p","r","e","s","s","i","o","n">>
\* "unexpected )"
ErrUnexpectedParen == <<"u","n","e","x","p","e","c","t","e","d"," ",")">>

\* syntax.Error and (*Error).Error
SyntaxError(code, expr) == [code |-> code, expr |-> expr]
ErrorString(e) ==
    <<"e","r","r","o","r"," ","p","a","r","s","i","n","g"," ","r","e","g","e","x","p",":"," ">>
      \o e.code \o <<":", " ", "\\x60">> \o e.expr \o <<"\\x60">>

\* the text of s from the byte at i (1-based) on, and from i up to j
From(s, i) == SubSeq(s, i, Len(s))
Between(s, i, j) == SubSeq(s, i, j - 1)
\* strings.Index(s[i-1:], pat) as a 1-based index into s, 0 if there is none
IndexFrom(s, i, pat) ==
    IF \E k \in i..Len(s) : HasPrefixAt(s, k - 1, pat)
    THEN Min({k \in i..Len(s) : HasPrefixAt(s, k - 1, pat)})
    ELSE 0

\* the parser: the next byte to read is s[i], last is where the repetition
\* operator just before it began (0 for none), err the error that ended it
Parser(i, stk, fl, last, err) ==
    [i |-> i, stack |-> stk, fl |-> fl, last |-> last, err |-> err]
\* p.push(re) with the input advanced to i
Push(st, re, i) == Parser(i, Append(st.stack, re), st.fl, 0, None)
Fail(st, code, expr) == Parser(st.i, st.stack, st.fl, st.last, Some(SyntaxError(code, expr)))

\* newLiteral, AnyCharNotNL and AnyChar as classes
Literal(r, fl) == CharClass(<<Item(<<<<r, r>>>>, FALSE, fl.fold)>>, FALSE)
AnyCharNotNL == CharClass(<<Item(<<<<10, 10>>>>, FALSE, FALSE)>>, TRUE)
AnyChar == CharClass(<<>>, TRUE)

\* collapse(subs, op)
collapse(subs, op) == IF Len(subs) = 1 THEN subs[1] ELSE [op |-> op, subs |-> subs]
\* the index of the topmost pseudo-operator of the stack, 0 if there is none
LastPseudo(stk) == Max({0} \cup {k \in 1..Len(stk) : IsPseudo(stk[k])})
\* concat: what lies above the topmost pseudo-operator becomes one node
concatAbove(stk, k) ==
    Append(SubSeq(stk, 1, k),
           IF k = Len(stk) THEN EmptyMatch
           ELSE collapse(SubSeq(stk, k + 1, Len(stk)), "cat"))
concat(stk) == concatAbove(stk, LastPseudo(stk))
\* alternate: what lies above the topmost left parenthesis becomes one node
alternateAbove(stk, k) ==
    Append(SubSeq(stk, 1, k), collapse(SubSeq(stk, k + 1, Len(stk)), "alt"))
alternate(stk) == alternateAbove(stk, LastPseudo(stk))
\* swapVerticalBar: a vertical bar below the top moves to the top
HasBarBelow(stk) == Len(stk) >= 2 /\ stk[Len(stk) - 1].op = "|"
swapVerticalBar(stk) ==
    IF HasBarBelow(stk)
    THEN SubSeq(stk, 1, Len(stk) - 2) \o <<stk[Len(stk)], VerticalBar>>
    ELSE stk
\* parseVerticalBar on the stack after concat
barAfterConcat(stk) ==
    IF HasBarBelow(stk) THEN swapVerticalBar(stk) ELSE Append(stk, VerticalBar)
parseVerticalBar(stk) == barAfterConcat(concat(stk))
\* p.concat(); if p.swapVerticalBar() { pop }; p.alternate()
popBar(stk) ==
    IF HasBarBelow(stk) THEN Append(SubSeq(stk, 1, Len(stk) - 2), stk[Len(stk)])
    ELSE stk
closeAlternation(stk) == alternate(popBar(concat(stk)))

\* parseRightParen on the stack after closeAlternation
rightParenOn(s, st, stk) ==
    IF Len(stk) < 2 \/ stk[Len(stk) - 1].op # "("
    THEN Fail(st, ErrUnexpectedParen, s)
    ELSE Parser(st.i + 1, Append(SubSeq(stk, 1, Len(stk) - 2), stk[Len(stk)]),
                stk[Len(stk) - 1].fl, 0, None)
parseRightParen(s, st) == rightParenOn(s, st, closeAlternation(st.stack))

\* nextRune(s[i-1:]): [ok, r, i] with i after the rune
nextRuneOf(s, i, rn) ==
    IF rn = Rune(RuneError, 1) THEN [ok |-> FALSE, r |-> 0, i |-> i]
    ELSE [ok |-> TRUE, r |-> rn.r, i |-> i + rn.size]
nextRune(s, i) == nextRuneOf(s, i, DecodeRune(From(s, i)))
RECURSIVE invalidFrom(_, _)
\* the loop of checkUTF8 from the byte i (0-based) of s: the index of the first
\* byte that starts no encoding, Len(s) when there is none
invalidFrom(s, i) ==
    IF i >= Len(s) THEN Len(s)
    ELSE IF IsInvalidAt(s, i) THEN i
    ELSE invalidFrom(s, i + RuneAt(s, i).size)
\* checkUTF8(s) returns nil
checkUTF8(s) == invalidFrom(s, 0) = Len(s)
\* the Expr of the error of checkUTF8(s): s from its first invalid byte on
checkUTF8Expr(s) == SubSeq(s, invalidFrom(s, 0) + 1, Len(s))

RECURSIVE repeatIsValid(_, _)
RECURSIVE subsAreValid(_, _)
\* repeatIsValid(re, n): the nested counts of the {} repetitions multiply to
\* at most n
repeatBound(re) == IF re.max < 0 THEN re.min ELSE re.max
subsOf(re) ==
    IF re.op \in {"cat", "alt"} THEN re.subs
    ELSE IF re.op \in {"star", "plus", "quest", "repeat"} THEN re.sub
    ELSE <<>>
subsAreValid(subs, n) ==
    subs = <<>> \/ (repeatIsValid(Head(subs), n) /\ subsAreValid(Tail(subs), n))
repeatIsValid(re, n) ==
    IF re.op = "repeat" /\ re.max = 0 THEN TRUE
    ELSE IF re.op = "repeat" /\ repeatBound(re) > n THEN FALSE
    ELSE IF re.op = "repeat" /\ repeatBound(re) > 0
    THEN subsAreValid(subsOf(re), n \div repeatBound(re))
    ELSE subsAreValid(subsOf(re), n)

\* p.repeat(op, min, max, before, after, lastRepeat) with after past a
\* non-greedy "?"
repeatOn(s, st, op, min, max, before, after) ==
    IF st.last # 0 THEN Fail(st, ErrInvalidRepeatOp, Between(s, st.last, after))
    ELSE IF st.stack = <<>> \/ IsPseudo(st.stack[Len(st.stack)])
    THEN Fail(st, ErrMissingRepeatArgument, Between(s, before, after))
    ELSE IF /\ op = "repeat"
            /\ (min >= 2 \/ max >= 2)
            /\ ~repeatIsValid(Repetition(op, st.stack[Len(st.stack)], min, max), 1000)
    THEN Fail(st, ErrInvalidRepeatSize, Between(s, before, after))
    ELSE Parser(after,
                Append(SubSeq(st.stack, 1, Len(st.stack) - 1),
                       Repetition(op, st.stack[Len(st.stack)], min, max)),
                st.fl, before, None)
repeat(s, st, op, min, max, before, after) ==
    repeatOn(s, st, op, min, max, before,
             IF after <= Len(s) /\ s[after] = "?" THEN after + 1 ELSE after)

RECURSIVE DigitsEnd(_, _)
\* the index after the digits of s from i on
DigitsEnd(s, i) == IF i <= Len(s) /\ IsDigit(s[i]) THEN DigitsEnd(s, i + 1) ELSE i
RECURSIVE IntFold(_, _)
\* the value of the digits d after n, -1 for what is too large
IntFold(d, n) ==
    IF d = <<>> THEN n
    ELSE IF n >= 100000000 THEN -1
    ELSE IntFold(Tail(d), n * 10 + DigitVal(Head(d)))
\* p.parseInt(s[i-1:]): [ok, n, i]
NoInt == [ok |-> FALSE, n |-> 0, i |-> 0]
parseIntAt(s, i) ==
    IF i > Len(s) \/ ~IsDigit(s[i]) THEN NoInt
    ELSE IF i + 1 <= Len(s) /\ s[i] = "0" /\ IsDigit(s[i + 1]) THEN NoInt
    ELSE [ok |-> TRUE, n |-> IntFold(Between(s, i, DigitsEnd(s, i)), 0), i |-> DigitsEnd(s, i)]

\* p.parseRepeat(s[i-1:]) for s[i] = "{": [ok, min, max, after]
NoRepeat == [ok |-> FALSE, min |-> 0, max |-> 0, after |-> 0]
repeatClose(s, min, max, i) ==
    IF i > Len(s) \/ s[i] # "}" THEN NoRepeat
    ELSE [ok |-> TRUE, min |-> min, max |-> max, after |-> i + 1]
repeatMax(s, min, mx) ==
    IF ~mx.ok THEN NoRepeat
    ELSE repeatClose(s, IF mx.n < 0 THEN -1 ELSE min, mx.n, mx.i)
repeatMin(s, mn) ==
    IF ~mn.ok \/ mn.i > Len(s) THEN NoRepeat
    ELSE IF s[mn.i] # "," THEN repeatClose(s, mn.n, mn.n, mn.i)
    ELSE IF mn.i + 1 > Len(s) THEN NoRepeat
    ELSE IF s[mn.i + 1] = "}" THEN repeatClose(s, mn.n, -1, mn.i + 1)
    ELSE repeatMax(s, mn.n, parseIntAt(s, mn.i + 1))
parseRepeat(s, i) == repeatMin(s, parseIntAt(s, i + 1))

\* case '{' of parse
braceOn(s, st, rp) ==
    IF ~rp.ok THEN Push(st, Literal(123, st.fl), st.i + 1)
    ELSE IF rp.min < 0 \/ rp.min > 1000 \/ rp.max > 1000 \/ (rp.max >= 0 /\ rp.min > rp.max)
    THEN Fail(st, ErrInvalidRepeatSize, Between(s, st.i, rp.after))
    ELSE repeat(s, st, "repeat", rp.min, rp.max, st.i, rp.after)

\* the result of parseEscape and of parseClassChar: [r, i] or an error
Escaped(r, i) == [err |-> None, r |-> r, i |-> i]
EscapeErr(code, expr) == [err |-> Some(SyntaxError(code, expr)), r |-> 0, i |-> 0]
IsAlnum(r) == (r >= 48 /\ r <= 57) \/ (r >= 65 /\ r <= 90) \/ (r >= 97 /\ r <= 122)
IsOctalAt(s, i) == i <= Len(s) /\ IsOctal(s[i])

RECURSIVE octalDigits(_, _, _, _)
\* up to n more octal digits after the value r
octalDigits(s, i, r, n) ==
    IF n = 0 \/ ~IsOctalAt(s, i) THEN Escaped(r, i)
    ELSE octalDigits(s, i + 1, r * 8 + DigitVal(s[i]), n - 1)

RECURSIVE hexBraces(_, _, _, _, _)
\* \x{...}: s[start] is the backslash, s[i] the next byte inside the braces
hexBraces(s, start, i, r, nhex) ==
    IF i > Len(s) THEN EscapeErr(ErrInvalidEscape, Between(s, start, i))
    ELSE IF ~nextRune(s, i).ok THEN EscapeErr(ErrInvalidUTF8, From(s, i))
    ELSE IF s[i] = "}"
    THEN (IF nhex = 0 THEN EscapeErr(ErrInvalidEscape, Between(s, start, i + 1))
          ELSE Escaped(r, i + 1))
    ELSE IF ~IsHex(s[i]) THEN EscapeErr(ErrInvalidEscape, Between(s, start, nextRune(s, i).i))
    ELSE IF r * 16 + unhex(s[i]) > MaxRune
    THEN EscapeErr(ErrInvalidEscape, Between(s, start, i + 1))
    ELSE hexBraces(s, start, i + 1, r * 16 + unhex(s[i]), nhex + 1)
\* \xHH: s[i] is the byte after the x, c the rune there
hexPair(s, start, i, c) ==
    IF ~c.ok THEN EscapeErr(ErrInvalidUTF8, From(s, i))
    ELSE IF s[i] = "{" THEN hexBraces(s, start, i + 1, 0, 0)
    ELSE IF c.i > Len(s) THEN EscapeErr(ErrInvalidEscape, Between(s, start, c.i))
    ELSE IF ~nextRune(s, c.i).ok THEN EscapeErr(ErrInvalidUTF8, From(s, c.i))
    ELSE IF ~IsHex(s[i]) \/ ~IsHex(s[c.i])
    THEN EscapeErr(ErrInvalidEscape, Between(s, start, nextRune(s, c.i).i))
    ELSE Escaped(unhex(s[i]) * 16 + unhex(s[c.i]), c.i + 1)
\* the escapes of C, without \b
CEscapes == {97, 102, 110, 114, 116, 118}
CEscape(r) ==
    IF r = 97 THEN 7 ELSE IF r = 102 THEN 12 ELSE IF r = 110 THEN 10
    ELSE IF r = 114 THEN 13 ELSE IF r = 116 THEN 9 ELSE 11
\* the switch of parseEscape on the rune c after the backslash at s[start]
escapeSwitch(s, start, c) ==
    IF c.r < 128 /\ ~IsAlnum(c.r) THEN Escaped(c.r, c.i)
    ELSE IF c.r >= 49 /\ c.r <= 55
    THEN (IF ~IsOctalAt(s, c.i) THEN EscapeErr(ErrInvalidEscape, Between(s, start, c.i))
          ELSE octalDigits(s, c.i, c.r - 48, 2))
    ELSE IF c.r = 48 THEN octalDigits(s, c.i, 0, 2)
    ELSE IF c.r = 120
    THEN (IF c.i > Len(s) THEN EscapeErr(ErrInvalidEscape, Between(s, start, c.i))
          ELSE hexPair(s, start, c.i, nextRune(s, c.i)))
    ELSE IF c.r \in CEscapes THEN Escaped(CEscape(c.r), c.i)
    ELSE EscapeErr(ErrInvalidEscape, Between(s, start, c.i))
\* p.parseEscape(s[i-1:]) for s[i] = "\\"
parseEscape(s, i) ==
    IF i + 1 > Len(s) THEN EscapeErr(ErrTrailingBackslash, <<>>)
    ELSE IF ~nextRune(s, i + 1).ok THEN EscapeErr(ErrInvalidUTF8, From(s, i + 1))
    ELSE escapeSwitch(s, i, nextRune(s, i + 1))

\* the groups of perl_groups.go by name: [ranges, neg]
Group(ranges, neg) == [ranges |-> ranges, neg |-> neg]
NoGroup == Group(<<>>, FALSE)
DigitRanges == <<<<48, 57>>>>
SpaceRanges == <<<<9, 10>>, <<12, 13>>, <<32, 32>>>>
perlGroup(c) ==
    IF c = "d" THEN Group(DigitRanges, FALSE)
    ELSE IF c = "D" THEN Group(DigitRanges, TRUE)
    ELSE IF c = "s" THEN Group(SpaceRanges, FALSE)
    ELSE IF c = "S" THEN Group(SpaceRanges, TRUE)
    ELSE IF c = "w" THEN Group(WordRanges, FALSE)
    ELSE IF c = "W" THEN Group(WordRanges, TRUE)
    ELSE NoGroup
posixRanges(name) ==
    IF name = <<"a","l","n","u","m">> THEN <<<<48, 57>>, <<65, 90>>, <<97, 122>>>>
    ELSE IF name = <<"a","l","p","h","a">> THEN <<<<65, 90>>, <<97, 122>>>>
    ELSE IF name = <<"a","s","c","i","i">> THEN <<<<0, 127>>>>
    ELSE IF name = <<"b","l","a","n","k">> THEN <<<<9, 9>>, <<32, 32>>>>
    ELSE IF name = <<"c","n","t","r","l">> THEN <<<<0, 31>>, <<127, 127>>>>
    ELSE IF name = <<"d","i","g","i","t">> THEN <<<<48, 57>>>>
    ELSE IF name = <<"g","r","a","p","h">> THEN <<<<33, 126>>>>
    ELSE IF name = <<"l","o","w","e","r">> THEN <<<<97, 122>>>>
    ELSE IF name = <<"p","r","i","n","t">> THEN <<<<32, 126>>>>
    ELSE IF name = <<"p","u","n","c","t">>
    THEN <<<<33, 47>>, <<58, 64>>, <<91, 96>>, <<123, 126>>>>
    ELSE IF name = <<"s","p","a","c","e">> THEN <<<<9, 13>>, <<32, 32>>>>
    ELSE IF name = <<"u","p","p","e","r">> THEN <<<<65, 90>>>>
    ELSE IF name = <<"w","o","r","d">> THEN WordRanges
    ELSE IF name = <<"x","d","i","g","i","t">> THEN <<<<48, 57>>, <<65, 70>>, <<97, 102>>>>
    ELSE <<>>
\* posixGroup of the text between "[:" and ":]"
posixGroup(name) ==
    IF name # <<>> /\ name[1] = "^" THEN Group(posixRanges(Tail(name)), TRUE)
    ELSE Group(posixRanges(name), FALSE)
\* p.appendGroup
GroupItem(g, fl) == Item(g.ranges, g.neg, fl.fold)

\* the class being parsed: the items so far, the next byte s[i]
Class(i, items, err) == [i |-> i, items |-> items, err |-> err]
ClassErr(code, expr) == Class(0, <<>>, Some(SyntaxError(code, expr)))

\* p.parseUnicodeClass for s[i] = "\\" and s[i + 1] one of p and P: an
\* error where no name can follow, and else outside the model
parseUnicodeClass(s, i) ==
    IF i + 2 > Len(s) THEN SyntaxError(ErrInvalidCharRange, Between(s, i, i + 2))
    ELSE IF ~nextRune(s, i + 2).ok THEN SyntaxError(ErrInvalidUTF8, From(s, i + 2))
    ELSE OutsideModel
IsUnicodeClass(s, i) == i + 1 <= Len(s) /\ s[i] = "\\" /\ s[i + 1] \in {"p", "P"}
IsPerlClass(s, i) == i + 1 <= Len(s) /\ s[i] = "\\" /\ perlGroup(s[i + 1]) # NoGroup

\* p.parseClassChar(s[i-1:], wholeClass)
parseClassChar(s, i, start) ==
    IF i > Len(s) THEN EscapeErr(ErrMissingBracket, From(s, start))
    ELSE IF s[i] = "\\" THEN parseEscape(s, i)
    ELSE IF ~nextRune(s, i).ok THEN EscapeErr(ErrInvalidUTF8, From(s, i))
    ELSE Escaped(nextRune(s, i).r, nextRune(s, i).i)

RECURSIVE classLoop(_, _, _, _, _, _)
\* a range lo-hi of the class
classRange(s, fl, start, i, items, lo, hi) ==
    IF hi.err # None THEN Class(0, <<>>, hi.err)
    ELSE IF hi.r < lo.r THEN ClassErr(ErrInvalidCharRange, Between(s, i, hi.i))
    ELSE classLoop(s, fl, start, hi.i,
                   Append(items, Item(<<<<lo.r, hi.r>>>>, FALSE, fl.fold)), FALSE)
\* a single character or a range: lo is the character at s[i]
classChar(s, fl, start, i, items, lo) ==
    IF lo.err # None THEN Class(0, <<>>, lo.err)
    ELSE IF lo.i + 1 <= Len(s) /\ s[lo.i] = "-" /\ s[lo.i + 1] # "]"
    THEN classRange(s, fl, start, i, items, lo, parseClassChar(s, lo.i + 1, start))
    ELSE classLoop(s, fl, start, lo.i,
                   Append(items, Item(<<<<lo.r, lo.r>>>>, FALSE, fl.fold)), FALSE)
\* [:name:] at s[i], k the index of the closing ":]"
namedClass(s, fl, start, i, items, k) ==
    IF posixGroup(Between(s, i + 2, k)).ranges = <<>>
    THEN ClassErr(ErrInvalidCharRange, Between(s, i, k + 2))
    ELSE classLoop(s, fl, start, k + 2,
                   Append(items, GroupItem(posixGroup(Between(s, i + 2, k)), fl)), FALSE)
\* for t == "" || t[0] != ']' || first { ... } of parseClass
classLoop(s, fl, start, i, items, first) ==
    IF i <= Len(s) /\ s[i] = "]" /\ ~first THEN Class(i + 1, items, None)
    ELSE IF /\ Len(s) - i + 1 > 2
            /\ s[i] = "[" /\ s[i + 1] = ":"
            /\ IndexFrom(s, i + 2, <<":", "]">>) # 0
    THEN namedClass(s, fl, start, i, items, IndexFrom(s, i + 2, <<":", "]">>))
    ELSE IF IsUnicodeClass(s, i) THEN Class(0, <<>>, Some(parseUnicodeClass(s, i)))
    ELSE IF IsPerlClass(s, i)
    THEN classLoop(s, fl, start, i + 2,
                   Append(items, GroupItem(perlGroup(s[i + 1]), fl)), FALSE)
    ELSE classChar(s, fl, start, i, items, parseClassChar(s, i, start))
\* p.parseClass(s[i-1:]) for s[i] = "["
classOn(st, neg, cl) ==
    IF cl.err # None THEN Parser(st.i, st.stack, st.fl, st.last, cl.err)
    ELSE Push(st, CharClass(cl.items, neg), cl.i)
parseClass(s, st) ==
    IF st.i + 1 <= Len(s) /\ s[st.i + 1] = "^"
    THEN classOn(st, TRUE, classLoop(s, st.fl, st.i, st.i + 2, <<>>, TRUE))
    ELSE classOn(st, FALSE, classLoop(s, st.fl, st.i, st.i + 1, <<>>, TRUE))

\* isValidCaptureName
IsNameByte(c) == c = "_" \/ (Len(c) = 1 /\ IsAlnum(Ord(c)))
isValidCaptureName(name) == name # <<>> /\ \A k \in 1..Len(name) : IsNameByte(name[k])

\* (?P<name> and (?<name> at s[i], from the byte of the name on
namedCapture(s, st, from, end) ==
    IF end = 0
    THEN (IF ~checkUTF8(From(s, st.i))
          THEN Fail(st, ErrInvalidUTF8, checkUTF8Expr(From(s, st.i)))
          ELSE Fail(st, ErrInvalidNamedCapture, From(s, st.i)))
    ELSE IF ~checkUTF8(Between(s, from, end))
    THEN Fail(st, ErrInvalidUTF8, checkUTF8Expr(Between(s, from, end)))
    ELSE IF ~isValidCaptureName(Between(s, from, end))
    THEN Fail(st, ErrInvalidNamedCapture, Between(s, st.i, end + 1))
    ELSE Push(st, LeftParen(st.fl), end + 1)

RECURSIVE flagLoop(_, _, _, _, _, _)
\* a flag: the flags math of parsePerlFlags, where sign < 0 inverts
SetFlag(fl, c, sign) ==
    IF c = "i" THEN [fl EXCEPT !.fold = (sign > 0)]
    ELSE IF c = "m" THEN [fl EXCEPT !.oneline = (sign < 0)]
    ELSE IF c = "s" THEN [fl EXCEPT !.dotnl = (sign > 0)]
    ELSE fl
\* the loop over the flags of (?flags) and (?flags:, s[i] the next byte
flagLoop(s, st, i, fl, sign, sawFlag) ==
    IF i > Len(s) THEN Fail(st, ErrInvalidPerlOp, Between(s, st.i, i))
    ELSE IF ~nextRune(s, i).ok THEN Fail(st, ErrInvalidUTF8, From(s, i))
    ELSE IF s[i] \in {"i", "m", "s", "U"}
    THEN flagLoop(s, st, i + 1, SetFlag(fl, s[i], sign), sign, TRUE)
    ELSE IF s[i] = "-" /\ sign > 0 THEN flagLoop(s, st, i + 1, fl, -1, FALSE)
    ELSE IF s[i] \in {":", ")"} /\ (sign > 0 \/ sawFlag)
    THEN Parser(i + 1,
                IF s[i] = ":" THEN Append(st.stack, LeftParen(st.fl)) ELSE st.stack,
                fl, 0, None)
    ELSE Fail(st, ErrInvalidPerlOp, Between(s, st.i, nextRune(s, i).i))
\* p.parsePerlFlags(s[i-1:]) for s[i] = "(" and s[i + 1] = "?"
parsePerlFlags(s, st) ==
    IF Len(s) - st.i + 1 > 4 /\ s[st.i + 2] = "P" /\ s[st.i + 3] = "<"
    THEN namedCapture(s, st, st.i + 4, IndexFrom(s, st.i, <<">">>))
    ELSE IF Len(s) - st.i + 1 > 3 /\ s[st.i + 2] = "<"
    THEN namedCapture(s, st, st.i + 3, IndexFrom(s, st.i, <<">">>))
    ELSE flagLoop(s, st, st.i + 2, st.fl, 1, FALSE)

RECURSIVE quoteLoop(_, _, _, _)
\* \Q ... \E: the runes of s from i up to end are literals
quoteLoop(s, st, i, end) ==
    IF i >= end THEN st
    ELSE IF ~nextRune(s, i).ok THEN Fail(st, ErrInvalidUTF8, Between(s, i, end))
    ELSE quoteLoop(s, Push(st, Literal(nextRune(s, i).r, st.fl), nextRune(s, i).i),
                   nextRune(s, i).i, end)
\* the input continues after the \E at s[k], or has ended
quoteEnd(s, st, k) ==
    IF st.err # None THEN st
    ELSE Parser(IF k = 0 THEN Len(s) + 1 ELSE k + 2, st.stack, st.fl, 0, None)
quoted(s, st, k) ==
    quoteEnd(s, quoteLoop(s, st, st.i + 2, IF k = 0 THEN Len(s) + 1 ELSE k), k)

\* an ordinary escape: the literal of parseEscape
escapeOn(st, e) ==
    IF e.err # None THEN Parser(st.i, st.stack, st.fl, st.last, e.err)
    ELSE Push(st, Literal(e.r, st.fl), e.i)
\* case '\\' of parse
parseBackslash(s, st) ==
    IF st.i + 1 <= Len(s) /\ s[st.i + 1] = "A" THEN Push(st, EmptyWidth("bot"), st.i + 2)
    ELSE IF st.i + 1 <= Len(s) /\ s[st.i + 1] = "b" THEN Push(st, EmptyWidth("wb"), st.i + 2)
    ELSE IF st.i + 1 <= Len(s) /\ s[st.i + 1] = "B" THEN Push(st, EmptyWidth("nwb"), st.i + 2)
    ELSE IF st.i + 1 <= Len(s) /\ s[st.i + 1] = "C"
    THEN Fail(st, ErrInvalidEscape, Between(s, st.i, st.i + 2))
    ELSE IF st.i + 1 <= Len(s) /\ s[st.i + 1] = "Q"
    THEN quoted(s, st, IndexFrom(s, st.i + 2, <<"\\", "E">>))
    ELSE IF st.i + 1 <= Len(s) /\ s[st.i + 1] = "z" THEN Push(st, EmptyWidth("eot"), st.i + 2)
    ELSE IF IsUnicodeClass(s, st.i)
    THEN Parser(st.i, st.stack, st.fl, st.last, Some(parseUnicodeClass(s, st.i)))
    ELSE IF IsPerlClass(s, st.i)
    THEN Push(st, CharClass(<<GroupItem(perlGroup(s[st.i + 1]), st.fl)>>, FALSE), st.i + 2)
    ELSE escapeOn(st, parseEscape(s, st.i))

\* default: a literal rune
parseLiteral(s, st, c) ==
    IF ~c.ok THEN Fail(st, ErrInvalidUTF8, From(s, st.i))
    ELSE Push(st, Literal(c.r, st.fl), c.i)

\* the switch of parse on the byte c = s[st.i]
parseToken(s, st, c) ==
    IF c = "(" THEN (IF st.i + 1 <= Len(s) /\ s[st.i + 1] = "?" THEN parsePerlFlags(s, st)
                     ELSE Push(st, LeftParen(st.fl), st.i + 1))
    ELSE IF c = "|" THEN Parser(st.i + 1, parseVerticalBar(st.stack), st.fl, 0, None)
    ELSE IF c = ")" THEN parseRightParen(s, st)
    ELSE IF c = "^" THEN Push(st, EmptyWidth(IF st.fl.oneline THEN "bot" ELSE "bol"), st.i + 1)
    ELSE IF c = "$" THEN Push(st, EmptyWidth(IF st.fl.oneline THEN "eot" ELSE "eol"), st.i + 1)
    ELSE IF c = "." THEN Push(st, IF st.fl.dotnl THEN AnyChar ELSE AnyCharNotNL, st.i + 1)
    ELSE IF c = "[" THEN parseClass(s, st)
    ELSE IF c = "*" THEN repeat(s, st, "star", 0, 0, st.i, st.i + 1)
    ELSE IF c = "+" THEN repeat(s, st, "plus", 0, 0, st.i, st.i + 1)
    ELSE IF c = "?" THEN repeat(s, st, "quest", 0, 0, st.i, st.i + 1)
    ELSE IF c = "{" THEN braceOn(s, st, parseRepeat(s, st.i))
    ELSE IF c = "\\" THEN parseBackslash(s, st)
    ELSE parseLiteral(s, st, nextRune(s, st.i))

RECURSIVE parseTokens(_, _)
\* for t != "" { ... } of parse
parseTokens(s, st) ==
    IF st.err # None \/ st.i > Len(s) THEN st
    ELSE parseTokens(s, parseToken(s, st, s[st.i]))

\* the result of syntax.Parse: [err, re]
Parsed(err, re) == [err |-> err, re |-> re]
parseEnd(s, stk) ==
    IF Len(stk) # 1 THEN Parsed(Some(SyntaxError(ErrMissingParen, s)), EmptyMatch)
    ELSE Parsed(None, stk[1])
parseDone(s, st) ==
    IF st.err # None THEN Parsed(st.err, EmptyMatch)
    ELSE parseEnd(s, closeAlternation(st.stack))
\* syntax.Parse(s, syntax.Perl)
Parse(s) ==
    IF Len(s) >= MaxPattern THEN OutsideModel
    ELSE parseDone(s, parseTokens(s, Parser(1, <<>>, PerlFlags, 0, None)))

\* regexp.Compile fails
CompileFails(re) == Parse(re).err # None

\* regexp.MatchString(pattern, str): [ok, matched, err]
matchParsed(p, s) ==
    IF p.err # None THEN [ok |-> FALSE, matched |-> FALSE, err |-> p.err]
    ELSE [ok |-> TRUE, matched |-> Matches(p.re, Runes(s)), err |-> None]
MatchString(re, s) == matchParsed(Parse(re), s)


(***************************************************************************)
(* The heap of Spec nodes and of map[string]*Spec maps.  Node and map ids  *)
(* are indices; 0 is nil.  `w` and `r` collect the ids of the maps a       *)
(* computation has written and read.                                       *)
(***************************************************************************)
EmptyHeap == [specs |-> <<>>, maps |-> <<>>, w |-> {}, r |-> {}]

\* a Spec struct with every field zero (part_007, lines 13-28)
ZeroSpec ==
    [Type |-> "", Properties |-> 0, Items |-> 0, Required |-> None,
     Conditions |-> None, Min |-> None, Max |-> None, MinLength |-> None,
     MaxLength |-> None, Pattern |-> None, Enum |-> None, AllowEmpty |-> None]

RECURSIVE SetToSeq(_)
SetToSeq(S) ==
    IF S = {} THEN <<>>
    ELSE LET x == CHOOSE y \in S : TRUE IN <<x>> \o SetToSeq(S \ {x})

\* the keys of a map in one fixed order
RangeKeys(m) == SetToSeq(DOMAIN m)

\* `for k, v := range m`: Go leaves the order of the keys unspecified.  The
\* variable order holds, for each kind of range statement, the code of the
\* order it takes: the code-th permutation of the fixed order, code 0 the
\* fixed order itself, so that the codes below n! give every order of n keys.
VARIABLE order
Without(s, k) == SubSeq(s, 1, k - 1) \o SubSeq(s, k + 1, Len(s))
RECURSIVE InOrder(_, _)
InOrder(s, code) ==
    IF s = <<>> THEN s
    ELSE <<s[(code % Len(s)) + 1]>>
         \o InOrder(Without(s, (code % Len(s)) + 1), code \div Len(s))
\* the keys as the range statement of the given kind visits them
RangeOver(m, site) == InOrder(RangeKeys(m), order[site])

NewSpec(h, node) == [h EXCEPT !.specs = Append(@, node)]
NewMap(h, m) == [h EXCEPT !.maps = Append(@, m)]
\* m[k] = v on map id mp
MapStore(h, mp, k, v) ==
    [h EXCEPT !.maps[mp] = (k :> v) @@ @, !.w = @ \cup {mp}]
MapRead(h, mp) == IF mp = 0 THEN h ELSE [h EXCEPT !.r = @ \cup {mp}]
\* the content of map id mp; a nil map reads as empty
MapOf(h, mp) == IF mp = 0 THEN <<>> ELSE h.maps[mp]

(***************************************************************************)
(* Spec trees as the caller writes them (JSON), and ParseSpec, which       *)
(* builds the heap nodes for a tree.                                       *)
(***************************************************************************)
\* a tree with every field absent: the JSON object {}
ZeroTree == [ZeroSpec EXCEPT !.Properties = None, !.Items = None]

RECURSIVE LoadSpec(_, _)
RECURSIVE LoadMap(_, _, _, _)
RECURSIVE LoadConds(_, _, _)

\* [h, id]: a new map holding the loaded specs of tree map tm
LoadEntry(s, tm, keys, acc) ==
    LoadMap(s.h, tm, Tail(keys), (Head(keys) :> s.id) @@ acc)
LoadMap(h, tm, keys, acc) ==
    IF keys = <<>> THEN [h |-> NewMap(h, acc), id |-> Len(h.maps) + 1]
    ELSE LoadEntry(LoadSpec(h, tm[Head(keys)]), tm, keys, acc)

\* [h, id]: the map of an optional tree map b; nil stays nil
LoadBranch(h, b) ==
    IF b = None THEN [h |-> h, id |-> 0]
    ELSE LoadMap(h, Get(b), RangeKeys(Get(b)), <<>>)

\* [h, cs]: the conditions cs with their then/else maps loaded
LoadCond(then, el, cs, acc) ==
    LoadConds(el.h, Tail(cs),
              Append(acc, [If |-> Head(cs).If, Then |-> then, Else |-> el.id]))
LoadElse(th, cs, acc) == LoadCond(th.id, LoadBranch(th.h, Head(cs).Else), cs, acc)
LoadConds(h, cs, acc) ==
    IF cs = <<>> THEN [h |-> h, cs |-> Some(acc)]
    ELSE LoadElse(LoadBranch(h, Head(cs).Then), cs, acc)

\* [h, id]: the nodes of tree t allocated in h
LoadNode(t, props, items, c) ==
    [h |-> NewSpec(c.h, [t EXCEPT !.Properties = props, !.Items = items,
                                  !.Conditions = c.cs]),
     id |-> Len(c.h.specs) + 1]
LoadConditions(t, props, i) ==
    LoadNode(t, props, i.id,
             IF t.Conditions = None THEN [h |-> i.h, cs |-> None]
             ELSE LoadConds(i.h, Get(t.Conditions), <<>>))
LoadItems(t, p) ==
    LoadConditions(t, p.id,
                   IF t.Items = None THEN [h |-> p.h, id |-> 0]
                   ELSE LoadSpec(p.h, Get(t.Items)))
LoadSpec(h, t) == LoadItems(t, LoadBranch(h, t.Properties))

\* ParseSpec (part_007, lines 31-37)
ParseSpec(t) == LoadSpec(EmptyHeap, t)

\* The tree a heap node stands for: what a reader following the pointers sees.
RECURSIVE TreeOf(_, _)
TreeOfMap(h, mp) ==
    IF mp = 0 THEN None
    ELSE Some([k \in DOMAIN h.maps[mp] |-> Get(TreeOf(h, h.maps[mp][k]))])
TreeOfConds(h, cs) ==
    IF cs = None THEN None
    ELSE Some([j \in 1..Len(Get(cs)) |->
                 [If |-> Get(cs)[j].If,
                  Then |-> TreeOfMap(h, Get(cs)[j].Then),
                  Else |-> TreeOfMap(h, Get(cs)[j].Else)]])
TreeOfNode(h, n) ==
    [n EXCEPT !.Properties = TreeOfMap(h, n.Properties),
              !.Items = TreeOf(h, n.Items),
              !.Conditions = TreeOfConds(h, n.Conditions)]
TreeOf(h, id) == IF id = 0 THEN None ELSE Some(TreeOfNode(h, h.specs[id]))

(***************************************************************************)
(* mergeSpecs (part_007, lines 363-433)                                    *)
(***************************************************************************)
Override(o, b) == IF o # None THEN o ELSE b

\* the override's Required list appended to the base's instead of replacing it:
\* a faulty variant of mergedFields
mergedFieldsAppending(b, o) ==
    [b EXCEPT !.Min = Override(o.Min, b.Min),
              !.Max = Override(o.Max, b.Max),
              !.MinLength = Override(o.MinLength, b.MinLength),
              !.MaxLength = Override(o.MaxLength, b.MaxLength),
              !.Pattern = Override(o.Pattern, b.Pattern),
              !.Enum = Override(o.Enum, b.Enum),
              !.AllowEmpty = Override(o.AllowEmpty, b.AllowEmpty),
              !.Type = IF o.Type # "" THEN o.Type ELSE b.Type,
              !.Required = IF o.Required = None THEN b.Required
                           ELSE IF b.Required = None THEN o.Required
                           ELSE Some(Get(b.Required) \o Get(o.Required))]

\* merged := &Spec{...base's fields...} and the overrides of its fields other
\* than Properties (lines 371-408, 427-430)
mergedFields(b, o) ==
    [b EXCEPT !.Min = Override(o.Min, b.Min),
              !.Max = Override(o.Max, b.Max),
              !.MinLength = Override(o.MinLength, b.MinLength),
              !.MaxLength = Override(o.MaxLength, b.MaxLength),
              !.Pattern = Override(o.Pattern, b.Pattern),
              !.Enum = Override(o.Enum, b.Enum),
              !.AllowEmpty = Override(o.AllowEmpty, b.AllowEmpty),
              !.Type = IF o.Type # "" THEN o.Type ELSE b.Type,
              !.Required = Override(o.Required, b.Required)]

\* for k, v := range base.Properties { merged.Properties[k] = v } (lines 416-418)
\* where merged.Properties is base.Properties itself: every entry is read and
\* stored back into the same map
baseRange(h, mp) ==
    [h EXCEPT !.r = @ \cup {mp},
              !.w = IF DOMAIN h.maps[mp] = {} THEN @ ELSE @ \cup {mp}]

RECURSIVE mergeSpecs(_, _, _)
RECURSIVE mergeProperties(_, _, _, _)

\* merged.Properties[k] = r.mergeSpecs(existing, v) (line 421), m the result of
\* the call
mergeStore(m, mp, omp, keys) ==
    mergeProperties(MapStore(m.h, mp, Head(keys), m.id), mp, omp, Tail(keys))
\* the body of the loop over override.Properties for key k (lines 420-424)
mergeProperty(h, mp, omp, keys, k) ==
    IF k \in DOMAIN h.maps[mp]
    THEN mergeStore(mergeSpecs(MapRead(h, mp), h.maps[mp][k], h.maps[omp][k]),
                    mp, omp, keys)
    ELSE mergeProperties(MapStore(MapRead(h, mp), mp, k, h.maps[omp][k]),
                         mp, omp, Tail(keys))
\* for k, v := range override.Properties { ... } (lines 419-425)
mergeProperties(h, mp, omp, keys) ==
    IF keys = <<>> THEN h ELSE mergeProperty(h, mp, omp, keys, Head(keys))

\* the merged node id gets the map mp as its Properties
mergeFinish(h, id, mp) == [h |-> [h EXCEPT !.specs[id].Properties = mp], id |-> id]
\* the two loops of lines 416-425 on merged.Properties = mp
mergeMaps(h, id, mp, omp) ==
    mergeFinish(mergeProperties(MapRead(h, omp), mp, omp, RangeOver(h.maps[omp], "merge")),
                id, mp)
\* the Properties part of mergeSpecs (lines 411-426); h0 holds the merged node.
\* merged.Properties is base's map itself unless that is nil
mergeInto(h0, id, b, o) ==
    IF o.Properties = 0 THEN [h |-> h0, id |-> id]
    ELSE mergeMaps(IF b.Properties = 0 THEN NewMap(h0, <<>>)
                   ELSE baseRange(h0, b.Properties),
                   id,
                   IF b.Properties = 0 THEN Len(h0.maps) + 1 ELSE b.Properties,
                   o.Properties)
mergeNodes(h, b, o) == mergeInto(NewSpec(h, mergedFields(b, o)), Len(h.specs) + 1, b, o)

\* [h, id]: the heap after the call and the *Spec it returns
mergeSpecs(h, base, override) ==
    IF base = 0 THEN [h |-> h, id |-> override]
    ELSE IF override = 0 THEN [h |-> h, id |-> base]
    ELSE mergeNodes(h, h.specs[base], h.specs[override])

(***************************************************************************)
(* ValidationResult and the leaf checks (part_007, lines 67-261, 467-480)  *)
(***************************************************************************)
\* result := &ValidationResult{Valid: true, Errors: []*ValidationError{}}
NewResult == [Valid |-> TRUE, Errors |-> <<>>]

\* addError without its first statement `r.Valid = false`: a faulty variant,
\* which the invariant of ValidationResult must tell from addError
addErrorKeepsValid(r, path, message) ==
    [r EXCEPT !.Errors = Append(@, [Path |-> path, Message |-> message])]

\* addError (lines 103-109)
addError(r, path, message) ==
    [Valid |-> FALSE,
     Errors |-> Append(r.Errors, [Path |-> path, Message |-> message])]

\* buildPath (lines 111-119)
buildPath(base, field) ==
    IF base = <<>> THEN field
    ELSE IF field = <<>> THEN base
    ELSE base \o <<".">> \o field

\* strconv.Itoa for an index
RECURSIVE Itoa(_)
Itoa(n) == IF n < 10 THEN <<Digits[n + 1]>>
           ELSE Itoa(n \div 10) \o <<Digits[(n % 10) + 1]>>

\* buildArrayPath (lines 121-123)
buildArrayPath(base, index) == base \o <<"[">> \o Itoa(index) \o <<"]">>

KindArg(v) == TypeArg(v.k)

\* the minLength and maxLength checks of validateString (lines 177-183) and of
\* validateArray (lines 450-456) on a length n
checkMinLength(r, path, n, spec, fmt) ==
    IF spec.MinLength # None /\ n < Get(spec.MinLength)
    THEN addError(r, path, Msg(fmt, <<IntV(n), IntV(Get(spec.MinLength))>>))
    ELSE r
checkMaxLength(r, path, n, spec, fmt) ==
    IF spec.MaxLength # None /\ n > Get(spec.MaxLength)
    THEN addError(r, path, Msg(fmt, <<IntV(n), IntV(Get(spec.MaxLength))>>))
    ELSE r

\* the outcome m of regexp.MatchString in validateString (lines 186-191)
checkMatched(r, path, spec, m) ==
    IF ~m.ok
    THEN addError(r, path, Msg("invalid pattern: %v", <<StrV(ErrorString(Get(m.err)))>>))
    ELSE IF ~m.matched
    THEN addError(r, path,
             Msg("string does not match pattern: %s", <<StrV(Get(spec.Pattern))>>))
    ELSE r
\* the pattern check of validateString (lines 185-192)
checkPattern(r, path, str, spec) ==
    IF spec.Pattern = None THEN r
    ELSE checkMatched(r, path, spec, MatchString(Get(spec.Pattern), str))

\* validateString with an allowEmpty that skips the length checks only: a
\* faulty variant of validateString
validateStringChecksPattern(r, path, value, spec) ==
    IF value.k # "string"
    THEN addError(r, path, Msg("expected string, got %T", <<KindArg(value)>>))
    ELSE IF spec.AllowEmpty # None /\ Get(spec.AllowEmpty) /\ value.s = <<>>
    THEN checkPattern(r, path, value.s, spec)
    ELSE checkPattern(
             checkMaxLength(
                 checkMinLength(r, path, Len(value.s), spec,
                                "string length %d is less than minimum %d"),
                 path, Len(value.s), spec,
                 "string length %d is greater than maximum %d"),
             path, value.s, spec)

\* validateString (lines 164-193)
validateString(r, path, value, spec) ==
    IF value.k # "string"
    THEN addError(r, path, Msg("expected string, got %T", <<KindArg(value)>>))
    ELSE IF spec.AllowEmpty # None /\ Get(spec.AllowEmpty) /\ value.s = <<>> THEN r
    ELSE checkPattern(
             checkMaxLength(
                 checkMinLength(r, path, Len(value.s), spec,
                                "string length %d is less than minimum %d"),
                 path, Len(value.s), spec,
                 "string length %d is greater than maximum %d"),
             path, value.s, spec)

\* the Min/Max checks shared by validateNumber and validateInteger
checkMin(r, path, num, spec, what) ==
    IF spec.Min # None /\ FloatLess(num, Get(spec.Min))
    THEN addError(r, path, Msg("%s %g is less than minimum %g",
                               <<TypeArg(what), num, Get(spec.Min)>>))
    ELSE r
checkMax(r, path, num, spec, what) ==
    IF spec.Max # None /\ FloatLess(Get(spec.Max), num)
    THEN addError(r, path, Msg("%s %g is greater than maximum %g",
                               <<TypeArg(what), num, Get(spec.Max)>>))
    ELSE r
checkRange(r, path, num, spec, what) ==
    checkMax(checkMin(r, path, num, spec, what), path, num, spec, what)

\* validateNumber (lines 195-218)
validateNumber(r, path, value, spec) ==
    IF value.k = "float64" THEN checkRange(r, path, value, spec, "number")
    ELSE IF IsIntKind(value) THEN checkRange(r, path, IntToFloat(value.i), spec, "number")
    ELSE addError(r, path, Msg("expected number, got %T", <<KindArg(value)>>))

\* validateInteger (lines 220-254)
validateInteger(r, path, value, spec) ==
    IF value.k = "float64"
    THEN IF value.e = 0 THEN checkRange(r, path, value, spec, "integer")
         ELSE addError(r, path, Msg("expected integer, got float: %g", <<value>>))
    ELSE IF IsIntKind(value) THEN checkRange(r, path, IntToFloat(value.i), spec, "integer")
    ELSE addError(r, path, Msg("expected integer, got %T", <<KindArg(value)>>))

\* validateBoolean (lines 256-261)
validateBoolean(r, path, value, spec) ==
    IF value.k # "bool"
    THEN addError(r, path, Msg("expected boolean, got %T", <<KindArg(value)>>))
    ELSE r

RECURSIVE DeepEqual(_, _)
\* reflect.DeepEqual(x, y) on two values that share no slice and no map (the
\* data and the members of a spec are decoded apart): the dynamic types are
\* the same and the contents are equal, a float64 by ==, so that NaN equals
\* nothing, a slice element by element, a map key by key
DeepEqual(x, y) ==
    IF x.k # y.k THEN FALSE
    ELSE IF x.k = "float64" THEN FloatEq(x, y)
    ELSE IF x.k = "slice"
    THEN /\ Len(x.a) = Len(y.a)
         /\ \A i \in 1..Len(x.a) : DeepEqual(x.a[i], y.a[i])
    ELSE IF x.k = "map"
    THEN /\ DOMAIN x.m = DOMAIN y.m
         /\ \A key \in DOMAIN x.m : DeepEqual(x.m[key], y.m[key])
    ELSE x = y

\* validateEnum (lines 467-480)
validateEnum(r, path, value, enum) ==
    IF \E j \in 1..Len(enum) : DeepEqual(value, enum[j]) THEN r
    ELSE addError(r, path, Msg("value not in enum: %v (allowed: %v)",
                               <<value, SliceV(enum)>>))

(***************************************************************************)
(* Condition resolver: buildEffectiveSpecs (part_007, lines 317-360)       *)
(***************************************************************************)
\* the merge with its arguments exchanged, so that what came first wins: a
\* faulty variant of mergeOverride
mergeOverrideReversed(h, existing, overrideSpec) ==
    mergeSpecs(h, overrideSpec, existing)

\* effectiveSpecs[fieldName] = r.mergeSpecs(existing, overrideSpec) (lines 344,
\* 348): the spec accumulated so far is the base, the new override wins
mergeOverride(h, existing, overrideSpec) == mergeSpecs(h, existing, overrideSpec)

RECURSIVE applyOverrides(_, _, _, _, _)
\* the store of the merged spec m into effectiveSpecs (lines 344, 349)
applyMerged(m, eff, props, omp, keys) ==
    applyOverrides(m.h, (Head(keys) :> m.id) @@ eff, props, omp, Tail(keys))
\* the body of the loop over overrides (lines 341-354)
applyOverride(h, eff, props, omp, keys, fieldName, overrideSpec) ==
    IF fieldName \in DOMAIN eff
    THEN applyMerged(mergeOverride(h, eff[fieldName], overrideSpec),
                     eff, props, omp, keys)
    ELSE IF fieldName \in DOMAIN MapOf(h, props)
    THEN applyMerged(mergeOverride(MapRead(h, props), h.maps[props][fieldName],
                                   overrideSpec),
                     eff, props, omp, keys)
    ELSE applyOverrides(MapRead(h, props), (fieldName :> overrideSpec) @@ eff,
                        props, omp, Tail(keys))
\* for fieldName, overrideSpec := range overrides { ... } (lines 340-355)
applyOverrides(h, eff, props, omp, keys) ==
    IF keys = <<>> THEN [h |-> h, eff |-> eff]
    ELSE applyOverride(h, eff, props, omp, keys, Head(keys), h.maps[omp][Head(keys)])

\* the branches exchanged: a faulty variant of chooseOverrides
chooseOverridesSwapped(result, condition) ==
    IF result THEN condition.Else ELSE condition.Then

\* the choice of the override map by the condition's result (lines 332-337)
chooseOverrides(result, condition) ==
    IF result THEN condition.Then ELSE condition.Else

\* the error recorded for a condition whose evaluation failed (line 328)
conditionError(r, condition, err) ==
    addError(r, <<>>, Msg("error evaluating condition '%s': %v",
                          <<StrV(condition.If), err>>))

\* `return` in place of `continue` after a failed evaluation (line 329): a
\* faulty variant of conditionResult, which gives up the remaining conditions
conditionResultStops(h, r, eff, obj, props, conds, res) ==
    IF res.st = "hang" THEN [h |-> h, r |-> r, eff |-> eff, hang |-> TRUE]
    ELSE [h |-> h, r |-> conditionError(r, Head(conds), res.err), eff |-> <<>>,
          hang |-> FALSE]

\* hang: the resolver is stuck in a tokenizer loop that never ends
RECURSIVE buildConditions(_, _, _, _, _, _)
conditionApplied(a, r, obj, props, conds) ==
    buildConditions(a.h, r, a.eff, obj, props, Tail(conds))
\* lines 339-356
conditionOverrides(h, r, eff, obj, props, conds, overrides) ==
    IF overrides = 0 THEN buildConditions(h, r, eff, obj, props, Tail(conds))
    ELSE conditionApplied(applyOverrides(MapRead(h, overrides), eff, props, overrides,
                                         RangeOver(h.maps[overrides], "overrides")),
                          r, obj, props, conds)
\* the body of the loop over conditions after evalExpression returned res
conditionResult(h, r, eff, obj, props, conds, res) ==
    IF res.st = "hang" THEN [h |-> h, r |-> r, eff |-> eff, hang |-> TRUE]
    ELSE IF res.st = "err"
    THEN buildConditions(h, conditionError(r, Head(conds), res.err), eff, obj, props,
                         Tail(conds))
    ELSE conditionOverrides(h, r, eff, obj, props, conds,
                            chooseOverrides(res.val, Head(conds)))
\* for _, condition := range spec.Conditions { ... } (lines 325-357)
buildConditions(h, r, eff, obj, props, conds) ==
    IF conds = <<>> THEN [h |-> h, r |-> r, eff |-> eff, hang |-> FALSE]
    ELSE conditionResult(h, r, eff, obj, props, conds,
                         evalExpression(Head(conds).If, obj))

\* buildEffectiveSpecs (lines 317-360): [h, r, eff, hang]
buildEffectiveSpecs(h, r, obj, spec) ==
    IF spec.Conditions = None \/ Get(spec.Conditions) = <<>>
    THEN [h |-> h, r |-> r, eff |-> <<>>, hang |-> FALSE]
    ELSE buildConditions(h, r, <<>>, obj, spec.Properties, Get(spec.Conditions))

(***************************************************************************)
(* The structural validator (part_007, lines 125-162, 263-314, 435-465).   *)
(* One call of validate is one step: it does the node's own checks and     *)
(* leaves the recursive calls on its children, in call order, as tasks.    *)
(***************************************************************************)
Task(kind, path, value, spec) ==
    [kind |-> kind, path |-> path, value |-> value, spec |-> spec]

Out(h, r, tasks, eff, hang) ==
    [h |-> h, r |-> r, tasks |-> tasks, eff |-> eff, hang |-> hang]

RECURSIVE requiredErrors(_, _, _, _)
\* for _, req := range spec.Required { ... } (lines 280-284)
requiredErrors(r, path, obj, reqs) ==
    IF reqs = <<>> THEN r
    ELSE requiredErrors(
             IF Head(reqs) \notin DOMAIN obj
             THEN addError(r, buildPath(path, Head(reqs)),
                           Msg("required field is missing", <<>>))
             ELSE r,
             path, obj, Tail(reqs))

\* the required check made only where no condition is declared: a faulty
\* variant of checkRequired
checkRequiredUnconditional(r, path, obj, spec) ==
    IF spec.Required # None /\ spec.Conditions = None
    THEN requiredErrors(r, path, obj, Get(spec.Required))
    ELSE r

\* the required check of validateObject (lines 279-285): the node's own list
checkRequired(r, path, obj, spec) ==
    IF spec.Required # None THEN requiredErrors(r, path, obj, Get(spec.Required))
    ELSE r

\* effectiveSpec of lines 293-296
effectiveSpec(props, eff, key) == IF key \in DOMAIN eff THEN eff[key] ELSE props[key]

\* the loop left after its first key: a faulty variant of propertyTasks
propertyTasksFirstOnly(path, obj, props, eff, keys) ==
    IF keys = <<>> \/ Head(keys) \notin DOMAIN obj THEN <<>>
    ELSE <<Task("validate", buildPath(path, Head(keys)), obj[Head(keys)],
                effectiveSpec(props, eff, Head(keys)))>>

RECURSIVE propertyTasks(_, _, _, _, _)
\* for key, propSpec := range spec.Properties { ... } (lines 289-301)
propertyTasks(path, obj, props, eff, keys) ==
    IF keys = <<>> THEN <<>>
    ELSE (IF Head(keys) \in DOMAIN obj
          THEN <<Task("validate", buildPath(path, Head(keys)), obj[Head(keys)],
                      effectiveSpec(props, eff, Head(keys)))>>
          ELSE <<>>)
         \o propertyTasks(path, obj, props, eff, Tail(keys))

\* the property loop run over the keys of the effective specs as well, so
\* that an override for a key outside Properties is validated: a faulty
\* variant of objectProperties
objectPropertiesOverEffective(h, r, eff, path, obj, spec) ==
    IF spec.Properties = 0 THEN Out(h, r, <<>>, eff, FALSE)
    ELSE Out(MapRead(h, spec.Properties), r,
             propertyTasks(path, obj, h.maps[spec.Properties], eff,
                           SetToSeq(DOMAIN h.maps[spec.Properties] \cup DOMAIN eff)),
             eff, FALSE)

\* the property loop of validateObject (lines 288-302)
objectProperties(h, r, eff, path, obj, spec) ==
    IF spec.Properties = 0 THEN Out(h, r, <<>>, eff, FALSE)
    ELSE Out(MapRead(h, spec.Properties), r,
             propertyTasks(path, obj, h.maps[spec.Properties], eff,
                           RangeOver(h.maps[spec.Properties], "properties")),
             eff, FALSE)
\* validateObject after buildEffectiveSpecs returned b (lines 277-313)
objectChecks(b, path, obj, spec) ==
    IF b.hang THEN Out(b.h, b.r, <<>>, b.eff, TRUE)
    ELSE objectProperties(b.h, checkRequired(b.r, path, obj, spec), b.eff,
                          path, obj, spec)

\* validateObject (lines 263-314)
validateObject(h, r, path, value, spec) ==
    IF value.k # "map"
    THEN Out(h, addError(r, path, Msg("expected object, got %T", <<KindArg(value)>>)),
             <<>>, <<>>, FALSE)
    ELSE objectChecks(IF spec.Properties # 0
                      THEN buildEffectiveSpecs(h, r, value.m, spec)
                      ELSE [h |-> h, r |-> r, eff |-> <<>>, hang |-> FALSE],
                      path, value.m, spec)

\* the calls on the items (lines 458-462)
itemTasks(path, arr, spec) ==
    IF spec.Items = 0 THEN <<>>
    ELSE [i \in 1..Len(arr) |->
            Task("validate", buildArrayPath(path, i - 1), arr[i], spec.Items)]

\* validateArray (lines 435-465)
validateArray(h, r, path, value, spec) ==
    IF value.k # "slice"
    THEN Out(h, addError(r, path, Msg("expected array, got %T", <<KindArg(value)>>)),
             <<>>, <<>>, FALSE)
    ELSE Out(h,
             checkMaxLength(
                 checkMinLength(r, path, Len(value.a), spec,
                                "array length %d is less than minimum %d"),
                 path, Len(value.a), spec,
                 "array length %d is greater than maximum %d"),
             itemTasks(path, value.a, spec), <<>>, FALSE)

HasEnum(spec) == spec.Enum # None /\ Len(Get(spec.Enum)) > 0

\* a check that makes no recursive call
Leaf(h, r) == Out(h, r, <<>>, <<>>, FALSE)

\* the switch on spec.Type (lines 138-156)
validateType(h, r, path, value, spec) ==
    CASE spec.Type = "string" -> Leaf(h, validateString(r, path, value, spec))
      [] spec.Type = "number" -> Leaf(h, validateNumber(r, path, value, spec))
      [] spec.Type = "integer" -> Leaf(h, validateInteger(r, path, value, spec))
      [] spec.Type = "boolean" -> Leaf(h, validateBoolean(r, path, value, spec))
      [] spec.Type = "object" -> validateObject(h, r, path, value, spec)
      [] spec.Type = "array" -> validateArray(h, r, path, value, spec)
      [] spec.Type = "null" ->
           Leaf(h, addError(r, path, Msg("expected null, got non-null value", <<>>)))
      [] OTHER ->
           Leaf(h, addError(r, path, Msg("unknown type: %s", <<TypeArg(spec.Type)>>)))

\* the enum check (lines 158-161) after the switch returned o: where the switch
\* made recursive calls it is left as a task behind them
validateEnumAfter(o, path, value, specId, spec) ==
    IF o.hang \/ ~HasEnum(spec) THEN o
    ELSE IF o.tasks = <<>>
    THEN [o EXCEPT !.r = validateEnum(o.r, path, value, Get(spec.Enum))]
    ELSE [o EXCEPT !.tasks = Append(@, Task("enum", path, value, specId))]

\* the null check (lines 131-136)
validateNull(h, r, path, spec) ==
    Leaf(h, IF spec.Type # "null"
            THEN addError(r, path,
                     Msg("expected type %s, got null", <<TypeArg(spec.Type)>>))
            ELSE r)

\* validate on a non-nil spec (lines 130-161)
validateSpec(h, r, path, value, specId, spec) ==
    IF value.k = "nil" THEN validateNull(h, r, path, spec)
    ELSE validateEnumAfter(validateType(h, r, path, value, spec),
                           path, value, specId, spec)

\* validate (lines 125-162), up to its recursive calls
validate(h, r, path, value, specId) ==
    IF specId = 0 THEN Leaf(h, r)
    ELSE validateSpec(h, r, path, value, specId, h.specs[specId])

\* one task of the work list
runTask(h, r, task) ==
    IF task.kind = "enum"
    THEN Leaf(h, validateEnum(r, task.path, task.value, Get(h.specs[task.spec].Enum)))
    ELSE validate(h, r, task.path, task.value, task.spec)

(***************************************************************************)
(* encoding/json.Unmarshal into `any`: numbers decode to float64, strings  *)
(* to their unescaped text, objects to map[string]any, arrays to []any.    *)
(***************************************************************************)
JRes(ok, v, pos) == [ok |-> ok, v |-> v, pos |-> pos]
JFail == JRes(FALSE, NilV, 0)

IsJSONSpace(c) == c \in {" ", "\t", "\n", "\r"}
RECURSIVE SkipJSONSpace(_, _)
SkipJSONSpace(s, i) ==
    IF i < Len(s) /\ IsJSONSpace(At(s, i)) THEN SkipJSONSpace(s, i + 1) ELSE i

IsNumChar(c) == IsDigit(c) \/ c \in {"-", "+", ".", "e", "E"}
RECURSIVE NumEnd(_, _)
NumEnd(s, i) == IF i < Len(s) /\ IsNumChar(At(s, i)) THEN NumEnd(s, i + 1) ELSE i

\* the JSON number grammar: -? (0 | [1-9][0-9]*) (. [0-9]+)? ([eE] [+-]? [0-9]+)?
JSONUnsigned(t) == IF Len(t) > 0 /\ t[1] = "-" THEN Tail(t) ELSE t
JSONNumberParts(ip, hasDot, fp, hasExp, expo) ==
    /\ ip # <<>> /\ AllDigits(ip) /\ (Len(ip) = 1 \/ ip[1] # "0")
    /\ (hasDot => (fp # <<>> /\ AllDigits(fp)))
    /\ (hasExp => (Unsigned(expo) # <<>> /\ AllDigits(Unsigned(expo))))
JSONMantissa(mant, dot, hasExp, expo) ==
    JSONNumberParts(SubSeq(mant, 1, dot - 1), dot <= Len(mant),
                    SubSeq(mant, dot + 1, Len(mant)), hasExp, expo)
JSONExponent(u, e) ==
    JSONMantissa(SubSeq(u, 1, e - 1), IndexAny(SubSeq(u, 1, e - 1), {"."}),
                 e <= Len(u), SubSeq(u, e + 1, Len(u)))
JSONNumberOk(t) == JSONExponent(JSONUnsigned(t), IndexAny(JSONUnsigned(t), {"e", "E"}))

RECURSIVE jsonValue(_, _)
RECURSIVE jsonElements(_, _, _)
RECURSIVE jsonMembers(_, _, _)

\* the four hexadecimal digits at the index i: getu4, -1 if there are none
HasU4(s, i) == i + 4 <= Len(s) /\ \A k \in 1..4 : IsHex(s[i + k])
getu4(s, i) == IF HasU4(s, i) THEN HexFold(SubSeq(s, i + 1, i + 4), 0) ELSE -1
\* \uXXXX at the index i
HasEscapeU(s, i) == i + 2 <= Len(s) /\ s[i + 1] = "\\" /\ s[i + 2] = "u"
IsSurrogate(r) == r >= 55296 /\ r < 57344
\* utf16.DecodeRune(r1, r2)
DecodeSurrogates(r1, r2) ==
    IF r1 >= 55296 /\ r1 < 56320 /\ r2 >= 56320 /\ r2 < 57344
    THEN (r1 - 55296) * 1024 + (r2 - 56320) + 65536
    ELSE RuneError

RECURSIVE jsonChars(_, _, _)
\* \uXXXX at the index i with the value rr: a surrogate takes the escape
\* after it for its other half, or becomes U+FFFD
jsonEscapeU(s, i, buf, rr) ==
    IF ~IsSurrogate(rr) THEN jsonChars(s, i + 6, buf \o EncodeRune(rr))
    ELSE IF /\ HasEscapeU(s, i + 6)
            /\ DecodeSurrogates(rr, getu4(s, i + 8)) # RuneError
    THEN jsonChars(s, i + 12, buf \o EncodeRune(DecodeSurrogates(rr, getu4(s, i + 8))))
    ELSE jsonChars(s, i + 6, buf \o EncodeRune(RuneError))
\* the escapes of one letter
JSONEscapes == {"\"", "\\", "/", "b", "f", "n", "r", "t"}
JSONEscape(c) ==
    IF c = "b" THEN Chr(8) ELSE IF c = "f" THEN "\f" ELSE IF c = "n" THEN "\n"
    ELSE IF c = "r" THEN "\r" ELSE IF c = "t" THEN "\t" ELSE c
\* a backslash at the index i
jsonEscape(s, i, buf) ==
    IF i + 1 >= Len(s) THEN JFail
    ELSE IF At(s, i + 1) \in JSONEscapes
    THEN jsonChars(s, i + 2, Append(buf, JSONEscape(At(s, i + 1))))
    ELSE IF At(s, i + 1) = "u" /\ HasU4(s, i + 2)
    THEN jsonEscapeU(s, i, buf, getu4(s, i + 2))
    ELSE JFail
\* the bytes of a string from the index i on, buf what is decoded of it: a
\* control character is an error, a byte that is no UTF-8 becomes U+FFFD
jsonChars(s, i, buf) ==
    IF i >= Len(s) THEN JFail
    ELSE IF At(s, i) = "\"" THEN JRes(TRUE, StrV(buf), i + 1)
    ELSE IF At(s, i) = "\\" THEN jsonEscape(s, i, buf)
    ELSE IF Ord(At(s, i)) < 32 THEN JFail
    ELSE IF Ord(At(s, i)) < 128 THEN jsonChars(s, i + 1, Append(buf, At(s, i)))
    ELSE jsonChars(s, i + RuneAt(s, i).size, buf \o EncodeRune(RuneAt(s, i).r))
\* a string from its opening quote at i
jsonString(s, i) == jsonChars(s, i + 1, <<>>)

\* a number, its text running from i to end
jsonNumber(t, end) ==
    IF JSONNumberOk(t) /\ ParseFloat(t).ok THEN JRes(TRUE, ParseFloat(t).f, end) ELSE JFail

\* an array after "[" at i, j the next non-space index
jsonArray(s, i, j) ==
    IF j < Len(s) /\ At(s, j) = "]" THEN JRes(TRUE, SliceV(<<>>), j + 1)
    ELSE jsonElements(s, i + 1, <<>>)
\* an object after "{" at i, j the next non-space index
jsonObject(s, i, j) ==
    IF j < Len(s) /\ At(s, j) = "}" THEN JRes(TRUE, MapV(<<>>), j + 1)
    ELSE jsonMembers(s, i + 1, <<>>)

\* the value that starts at the non-space index i
jsonAt(s, i) ==
    IF i >= Len(s) THEN JFail
    ELSE IF HasPrefixAt(s, i, <<"n","u","l","l">>) THEN JRes(TRUE, NilV, i + 4)
    ELSE IF HasPrefixAt(s, i, <<"t","r","u","e">>) THEN JRes(TRUE, BoolV(TRUE), i + 4)
    ELSE IF HasPrefixAt(s, i, <<"f","a","l","s","e">>) THEN JRes(TRUE, BoolV(FALSE), i + 5)
    ELSE IF At(s, i) = "\"" THEN jsonString(s, i)
    ELSE IF At(s, i) = "-" \/ IsDigit(At(s, i))
    THEN jsonNumber(Slice(s, i, NumEnd(s, i)), NumEnd(s, i))
    ELSE IF At(s, i) = "[" THEN jsonArray(s, i, SkipJSONSpace(s, i + 1))
    ELSE IF At(s, i) = "{" THEN jsonObject(s, i, SkipJSONSpace(s, i + 1))
    ELSE JFail
jsonValue(s, i0) == jsonAt(s, SkipJSONSpace(s, i0))

\* after an element: "," and the next element, or "]"
jsonElementSep(s, acc, j) ==
    IF j >= Len(s) THEN JFail
    ELSE IF At(s, j) = "," THEN jsonElements(s, j + 1, acc)
    ELSE IF At(s, j) = "]" THEN JRes(TRUE, SliceV(acc), j + 1)
    ELSE JFail
jsonElement(s, acc, e) ==
    IF ~e.ok THEN JFail
    ELSE jsonElementSep(s, Append(acc, e.v), SkipJSONSpace(s, e.pos))
jsonElements(s, i, acc) == jsonElement(s, acc, jsonValue(s, i))

\* after a member: "," and the next member, or "}"
jsonMemberSep(s, m, j) ==
    IF j >= Len(s) THEN JFail
    ELSE IF At(s, j) = "," THEN jsonMembers(s, j + 1, m)
    ELSE IF At(s, j) = "}" THEN JRes(TRUE, MapV(m), j + 1)
    ELSE JFail
jsonMember(s, acc, key, e) ==
    IF ~e.ok THEN JFail
    ELSE jsonMemberSep(s, (key :> e.v) @@ acc, SkipJSONSpace(s, e.pos))
jsonMemberValue(s, acc, key, c) ==
    IF c >= Len(s) \/ At(s, c) # ":" THEN JFail
    ELSE jsonMember(s, acc, key, jsonValue(s, c + 1))
jsonColon(s, acc, k) ==
    IF ~k.ok THEN JFail
    ELSE jsonMemberValue(s, acc, k.v.s, SkipJSONSpace(s, k.pos))
jsonKey(s, acc, k0) ==
    IF k0 >= Len(s) \/ At(s, k0) # "\"" THEN JFail
    ELSE jsonColon(s, acc, jsonString(s, k0))
jsonMembers(s, i, acc) == jsonKey(s, acc, SkipJSONSpace(s, i))

\* json.Unmarshal(jsonData, &data): [ok, v]
UnmarshalResult(s, r) ==
    IF r.ok /\ SkipJSONSpace(s, r.pos) >= Len(s) THEN [ok |-> TRUE, v |-> r.v]
    ELSE [ok |-> FALSE, v |-> NilV]
Unmarshal(s) == UnmarshalResult(s, jsonValue(s, 0))


(***************************************************************************)
(* Inputs: the Spec trees the caller builds and the values it validates.   *)
(* Field names: e ("enabled"), v ("value"), o (a nested object with the    *)
(* field x), z (never declared, never present).                            *)
(***************************************************************************)
MaxConds == 2

fe == <<"e">>
fv == <<"v">>
fo == <<"o">>
fx == <<"x">>
fz == <<"z">>

TypeSpec(t) == [ZeroTree EXCEPT !.Type = t]
MinLen(n) == [ZeroTree EXCEPT !.MinLength = Some(n)]
MaxLen(n) == [ZeroTree EXCEPT !.MaxLength = Some(n)]
Props(m) == [ZeroTree EXCEPT !.Properties = Some(m)]

Cond(if, then, else) == [If |-> if, Then |-> then, Else |-> else]

\* "e == true": then v.minLength 1            (the README's conditional example)
CondThen == Cond(<<"e"," ","=","="," ","t","r","u","e">>, Some(fv :> MinLen(1)), None)
\* "e == true": then v.minLength 1, else v.maxLength 0
CondElse == Cond(<<"e"," ","=","="," ","t","r","u","e">>,
                 Some(fv :> MinLen(1)), Some(fv :> MaxLen(0)))
\* "v": then v.minLength 3
CondLater == Cond(<<"v">>, Some(fv :> MinLen(3)), None)
\* "e": then o.properties.x.minLength 1       (an override with nested Properties)
CondNested == Cond(<<"e">>, Some(fo :> Props(fx :> MinLen(1))), None)
\* "e > 1": fails to evaluate when e is present and no number
CondFails == Cond(<<"e"," ",">"," ","1">>, Some(fv :> MinLen(1)), Some(fv :> MinLen(1)))
\* "e AND(v)": an operator written directly against a parenthesis
CondParen == Cond(<<"e"," ","A","N","D","(","v",")">>, Some(fv :> MinLen(1)), None)

CondPool == {CondElse, CondLater, CondNested, CondFails}

RECURSIVE SeqsUpTo(_, _)
\* the sequences over S of length at most n
SeqsUpTo(S, n) ==
    IF n = 0 THEN {<<>>}
    ELSE LET shorter == SeqsUpTo(S, n - 1)
         IN  shorter \cup {Append(q, x) : q \in shorter, x \in S}

ObjectTree(conds, req) ==
    [ZeroTree EXCEPT
       !.Type = "object",
       !.Properties = Some((fe :> TypeSpec("boolean")) @@ (fv :> TypeSpec("string"))
                           @@ (fo :> [ZeroTree EXCEPT
                                        !.Type = "object",
                                        !.Properties = Some(fx :> TypeSpec("string"))])),
       !.Required = req,
       !.Conditions = conds]

RECURSIVE Distinct(_, _)
\* the sequences of at most n distinct members of S
Distinct(S, n) ==
    IF n = 0 THEN {<<>>}
    ELSE {<<>>} \cup UNION {{<<x>> \o q : q \in Distinct(S \ {x}, n - 1)} : x \in S}

\* the object specs: every list of at most MaxConds distinct conditions of
\* the pool with a Required list, and every spec of at most one condition
\* without
ObjectTrees ==
    {ObjectTree(IF cs = <<>> THEN None ELSE Some(cs), Some(<<fv, fz>>)) :
        cs \in Distinct(CondPool, MaxConds)}
      \cup {ObjectTree(IF cs = <<>> THEN None ELSE Some(cs), None) :
              cs \in Distinct(CondPool \cup {CondThen}, 1)}

\* object specs with a condition whose guard the tokenizer does not get through
HangTrees == {ObjectTree(Some(cs), None) : cs \in {<<CondParen>>, <<CondThen, CondParen>>}}

\* specs that are no object: no type at all, a constraint-only fragment, an
\* array of fragments, a plain string, the null type, a misspelt type
OtherTrees ==
    {ZeroTree, MinLen(1),
     [ZeroTree EXCEPT !.Type = "array", !.Items = Some(MinLen(1))],
     [ZeroTree EXCEPT !.Type = "string", !.MinLength = Some(1)],
     TypeSpec("null"), TypeSpec("strnig")}

\* "x > 1": fails to evaluate when x is present and no number
CondInner == Cond(<<"x"," ",">"," ","1">>, Some(fx :> MinLen(1)), None)

\* an object whose field o is an object that carries a condition of its own
NestedTree ==
    [ZeroTree EXCEPT
       !.Type = "object",
       !.Properties = Some(fo :> [ZeroTree EXCEPT
                                    !.Type = "object",
                                    !.Properties = Some(fx :> TypeSpec("string")),
                                    !.Required = Some(<<fx, fz>>),
                                    !.Conditions = Some(<<CondInner>>)])]

Trees == ObjectTrees \cup HangTrees \cup OtherTrees \cup {NestedTree}

Restrict(f, S) == [k \in S |-> f[k]]

ObjectValues ==
    {MapV(Restrict((fe :> BoolV(b)) @@ (fv :> StrV(str)) @@ (fo :> MapV(fx :> StrV(<<>>))),
                   keys)) :
        b \in BOOLEAN, str \in {<<>>, <<"a","b">>}, keys \in SUBSET {fe, fv, fo}}

OtherValues == {NilV, StrV(<<>>), StrV(<<"a","b">>), SliceV(<<StrV(<<>>), NilV>>)}

Values == ObjectValues \cup OtherValues

\* JSON texts handed to ValidateJSONString
JSONTexts ==
    { <<"{","i","n","v","a","l","i","d"," ","j","s","o","n","}">>,
      <<"{","\"","e","\"",":","t","r","u","e",",","\"","v","\"",":","\"","\"","}">>,
      <<"{","\"","e","\"",":","f","a","l","s","e",",","\"","v","\"",":","\"","\"","}">>,
      <<"{","\"","v","\"",":","\"","a","b","\"","}"," ","x">>,
      <<"[","\"","\"",",">>,
      <<"n","u","l">>,
      <<"n","u","l","l">>,
      <<"\"","a","b","\"">> }

\* the trees and values of the runs with two concurrent calls
ConcTrees ==
    {ObjectTree(Some(cs), None) : cs \in {<<CondThen>>, <<CondNested>>, <<CondLater>>}}
ConcValues ==
    {MapV((fe :> BoolV(b)) @@ (fv :> StrV(<<>>))) : b \in BOOLEAN}

\* the expressions handed to the tokenizer on its own: every string of at most
\* MaxExprLen bytes over ExprBytes, and the two expressions of the README style
\* with an operator written against a parenthesis
MaxExprLen == 4
\* the iterations of the tokenizer's outer loop that a run follows: more than
\* the bytes of the longest expression, so that a call that has not returned
\* after them is one whose cursor has stopped
MaxIter == 12
ExprBytes == {"a", " ", "(", ")", "O", "R", "="}
Expressions ==
    SeqsUpTo(ExprBytes, MaxExprLen)
      \cup {<<"a"," ","A","N","D","(","b",")">>, <<"(","a",")","O","R","(","b",")">>,
            <<"a"," ","A","N","D"," ","b">>, <<"a"," ","=","="," ","'","b"," ","c","'">>,
            <<"a","n","d","r","o","i","d">>, <<"o","r","d","e","r">>, <<"b","a","n","d">>,
            <<"O","R","a","c","l","e">>, <<"a"," ","o","r"," ","b">>,
            <<"(","a",")"," ","a","N","d"," ","(","b",")">>,
            <<"(","O","R","(","a",")",")">>, <<"a","\\x0B","b">>,
            <<"a","\\x0B","A","N","D","\\x0B","b">>}

(***************************************************************************)
(* State                                                                   *)
(***************************************************************************)
VARIABLES
    heap,     \* the Spec nodes and maps: [specs, maps, w, r] with w = r = {}
    root,     \* the caller's *Spec: the root node built by ParseSpec
    pc,       \* per call: "idle", "run", "done", "hung", "crashed"
    arg,      \* per call: [data, spec], the arguments of Validate
    result,   \* per call: its ValidationResult while it runs
    stack,    \* per call: the validate calls still to be made, in call order
    ret,      \* per call: what the entry point returned, [result, err] options
    pre,      \* per call: the heap when the call was made
    acc,      \* per call: [w, r, own], the maps it wrote, read and allocated
    conc,     \* per call: [w, r], its accesses while the other call was running
    last,     \* per call: a record of the validate call made last
    jsonIn,   \* per call: the text passed to ValidateJSONString, as an option
    texpr,    \* tokenizer: expr, the trimmed string
    ti,       \* tokenizer: the cursor i
    tprev,    \* tokenizer: the cursor at the head of the last iteration
    ttokens,  \* tokenizer: tokens
    titer,    \* tokenizer: outer-loop iterations made so far
    tpc,      \* tokenizer: "loop", "done" or "off"
    pure      \* a function called on its own: [fn, in, out], fn "" before the call

vars == <<heap, root, pc, arg, result, stack, ret, pre, acc, conc, last, jsonIn,
          texpr, ti, tprev, ttokens, titer, tpc, pure, order>>
tokVars == <<texpr, ti, tprev, ttokens, titer, tpc>>

Procs == {1, 2}

NoAcc == [w |-> {}, r |-> {}, own |-> {}]
NoConc == [w |-> {}, r |-> {}]
NoRet == [result |-> None, err |-> None]
\* every range statement takes the fixed order
DeclaredOrder == [properties |-> 0, overrides |-> 0, merge |-> 0]
NoLast == [task |-> Task("none", <<>>, NilV, 0), h |-> EmptyHeap,
           r |-> NewResult, out |-> Out(EmptyHeap, NewResult, <<>>, <<>>, FALSE),
           order |-> DeclaredOrder]

\* the caller's spec: spec, err := ParseSpec(...)
InitHeap(loaded) == heap = loaded.h /\ root = loaded.id

\* no call of Validate has been made
NoCalls ==
    /\ pc = [p \in Procs |-> "idle"]
    /\ arg = [p \in Procs |-> [data |-> NilV, spec |-> 0]]
    /\ result = [p \in Procs |-> NewResult]
    /\ stack = [p \in Procs |-> <<>>]
    /\ ret = [p \in Procs |-> NoRet]
    /\ pre = [p \in Procs |-> EmptyHeap]
    /\ acc = [p \in Procs |-> NoAcc]
    /\ conc = [p \in Procs |-> NoConc]
    /\ last = [p \in Procs |-> NoLast]
    /\ jsonIn = [p \in Procs |-> None]

IdleCalls == NoCalls /\ order = DeclaredOrder

InitCalls(trees) == (\E t \in trees : InitHeap(ParseSpec(t))) /\ IdleCalls

\* tokenizeExpression up to its loop (lines 173-176)
InitTokenizer(inputs) ==
    /\ texpr \in {TrimSpace(expr) : expr \in inputs}
    /\ ti = 0
    /\ tprev = 0
    /\ ttokens = <<>>
    /\ titer = 0
    /\ tpc = "loop"

\* no function is called on its own
NoPure == [fn |-> "", in |-> <<>>, out |-> <<>>]

NoTokenizer ==
    /\ texpr = <<>>
    /\ ti = 0
    /\ tprev = 0
    /\ ttokens = <<>>
    /\ titer = 0
    /\ tpc = "off"

Init == InitCalls(Trees) /\ NoTokenizer /\ pure = NoPure

(***************************************************************************)
(* Entry points (part_007, lines 74-101)                                   *)
(***************************************************************************)
\* Validate(data, spec) up to result.validate("", data, spec)
Enter(p, data, spec) ==
    /\ arg' = [arg EXCEPT ![p] = [data |-> data, spec |-> spec]]
    /\ pre' = [pre EXCEPT ![p] = heap]
    /\ acc' = [acc EXCEPT ![p] = NoAcc]
    /\ conc' = [conc EXCEPT ![p] = NoConc]
    /\ last' = [last EXCEPT ![p] = NoLast]
    /\ IF spec = 0
       THEN /\ result' = [result EXCEPT ![p] = addError(NewResult, <<>>,
                                                    Msg("spec is nil", <<>>))]
            /\ stack' = [stack EXCEPT ![p] = <<>>]
       ELSE /\ result' = [result EXCEPT ![p] = NewResult]
            /\ stack' = [stack EXCEPT ![p] = <<Task("validate", <<>>, data, spec)>>]
    /\ pc' = [pc EXCEPT ![p] = "run"]
    /\ UNCHANGED <<heap, root, ret>>

Validate(p, data, spec) ==
    /\ pc[p] = "idle"
    /\ Enter(p, data, spec)
    /\ UNCHANGED jsonIn
    /\ UNCHANGED <<tokVars, pure, order>>

\* ValidateJSON after json.Unmarshal returned u (lines 92-95)
ValidateJSON(p, u, spec) ==
    IF u.ok
    THEN Enter(p, u.v, spec)
    ELSE /\ ret' = [ret EXCEPT ![p] =
                      [result |-> None,
                       err |-> Some(Msg("invalid JSON: %w",
                                        <<Msg("json: syntax error", <<>>)>>))]]
         /\ pc' = [pc EXCEPT ![p] = "done"]
         /\ UNCHANGED <<heap, root, arg, result, stack, pre, acc, conc, last>>

\* ValidateJSONString / ValidateJSON (lines 90-101)
ValidateJSONString(p, jsonStr, spec) ==
    /\ pc[p] = "idle"
    /\ ValidateJSON(p, Unmarshal(jsonStr), spec)
    /\ jsonIn' = [jsonIn EXCEPT ![p] = Some(jsonStr)]
    /\ UNCHANGED <<tokVars, pure, order>>

Running(p) == pc[p] = "run"
OthersRunning(p) == \E q \in Procs \ {p} : Running(q)

\* the effect of one call of r.validate that came out as o
StepTo(p, o) ==
    /\ heap' = [o.h EXCEPT !.w = {}, !.r = {}]
    /\ result' = [result EXCEPT ![p] = o.r]
    /\ stack' = [stack EXCEPT ![p] = IF o.hang THEN <<>> ELSE o.tasks \o Tail(stack[p])]
    /\ pc' = [pc EXCEPT ![p] = IF o.hang THEN "hung" ELSE "run"]
    /\ acc' = [acc EXCEPT ![p] =
                 [w |-> @.w \cup o.h.w, r |-> @.r \cup o.h.r,
                  own |-> @.own \cup ((Len(heap.maps) + 1)..Len(o.h.maps))]]
    /\ conc' = [conc EXCEPT ![p] =
                  IF OthersRunning(p)
                  THEN [w |-> @.w \cup o.h.w, r |-> @.r \cup o.h.r]
                  ELSE @]
    /\ last' = [last EXCEPT ![p] =
                  [task |-> Head(stack[p]), h |-> heap, r |-> result[p], out |-> o,
                   order |-> order]]

\* one call of r.validate: the first task of the work list
Step(p) ==
    /\ pc[p] = "run"
    /\ stack[p] # <<>>
    /\ StepTo(p, runTask(heap, result[p], Head(stack[p])))
    /\ UNCHANGED <<root, arg, ret, pre, jsonIn>>
    /\ UNCHANGED <<tokVars, pure, order>>

\* the number of keys of map id mp
KeysOf(h, mp) == IF mp = 0 THEN 0 ELSE Cardinality(DOMAIN h.maps[mp])
Range(f) == {f[k] : k \in DOMAIN f}
RECURSIVE Factorial(_)
Factorial(n) == IF n <= 1 THEN 1 ELSE n * Factorial(n - 1)
\* the Then and Else maps of the conditions of a node
OverrideMaps(node) ==
    IF node.Conditions = None THEN {}
    ELSE UNION {{c.Then, c.Else} : c \in Range(Get(node.Conditions))} \ {0}
\* the nodes ids with the nodes of their Properties, n levels down
RECURSIVE NodesUnder(_, _, _)
NodesUnder(h, ids, n) ==
    IF n = 0 THEN ids
    ELSE NodesUnder(h, ids \cup UNION {Range(MapOf(h, h.specs[id].Properties)) : id \in ids},
                    n - 1)
\* the override specs a validate call on node may hand to mergeSpecs
OverrideSpecs(h, node) ==
    NodesUnder(h, UNION {Range(h.maps[mp]) : mp \in OverrideMaps(node)}, Len(h.specs))
\* the names in the Properties of the override specs: mergeSpecs ranges over
\* the Properties of an override, which holds some of these names
OverrideNames(h, node) ==
    UNION {DOMAIN MapOf(h, h.specs[id].Properties) : id \in OverrideSpecs(h, node)}
\* the orders that the range statements of validateObject on node can take:
\* every order of the keys of Properties (line 288), of a Then or Else map
\* (line 340) and of the Properties of an override (mergeSpecs)
NodeOrders(h, node) ==
    [properties : 0..(Factorial(KeysOf(h, node.Properties)) - 1),
     overrides : 0..(Factorial(Max({0} \cup {KeysOf(h, mp) : mp \in OverrideMaps(node)})) - 1),
     merge : 0..(Factorial(Cardinality(OverrideNames(h, node))) - 1)]
\* the keys of the object among the keys of Properties, as the property loop
\* in the order of the given code comes to them
PresentKeys(h, task, code) ==
    SelectSeq(InOrder(RangeKeys(h.maps[h.specs[task.spec].Properties]), code),
              LAMBDA key : key \in DOMAIN task.value.m)
\* the property loop skips a key that the object lacks (line 296), so orders
\* that differ only in the places of such keys make the same calls: the one
\* of the least code stands for them
LeastCode(h, task, o) ==
    \A code \in 0..(o.properties - 1) :
        PresentKeys(h, task, code) # PresentKeys(h, task, o.properties)
\* the orders of the range statements of one task: a call that is not
\* validateObject on a node with properties has none
TaskOrders(h, task) ==
    IF \/ task.kind # "validate" \/ task.spec = 0 \/ task.value.k # "map"
    THEN {DeclaredOrder}
    ELSE IF h.specs[task.spec].Type # "object" \/ h.specs[task.spec].Properties = 0
    THEN {DeclaredOrder}
    ELSE {o \in NodeOrders(h, h.specs[task.spec]) : LeastCode(h, task, o)}

\* the runtime's choice of the iteration orders of the maps that the next
\* validate call ranges over
Reorder(p) ==
    /\ pc[p] = "run"
    /\ stack[p] # <<>>
    /\ \E o \in TaskOrders(heap, Head(stack[p])) \ {order} : order' = o
    /\ UNCHANGED <<heap, root, pc, arg, result, stack, ret, pre, acc, conc, last, jsonIn>>
    /\ UNCHANGED <<tokVars, pure>>

\* return result
Return(p) ==
    /\ pc[p] = "run"
    /\ stack[p] = <<>>
    /\ pc' = [pc EXCEPT ![p] = "done"]
    /\ ret' = [ret EXCEPT ![p] = [result |-> Some(result[p]), err |-> None]]
    /\ UNCHANGED <<heap, root, arg, result, stack, pre, acc, conc, last, jsonIn>>
    /\ UNCHANGED <<tokVars, pure, order>>

\* A program that validates once.
Next ==
    \/ \E data \in Values, spec \in {0, root} : Validate(1, data, spec)
    \/ \E jsonStr \in JSONTexts : ValidateJSONString(1, jsonStr, root)
    \/ Reorder(1)
    \/ Step(1)
    \/ Return(1)

Spec == Init /\ [][Next]_vars

(***************************************************************************)
(* The tokenizer on its own: tokenizeExpression, one iteration of its      *)
(* outer loop at a time.                                                   *)
(***************************************************************************)
\* the cursor and the token list after an iteration that came out as r
TokIterateTo(r) ==
    /\ ti' = r.i
    /\ ttokens' = r.tokens

\* one iteration of `for i < len(expr) { ... }` (lines 177-300)
TokIterate ==
    /\ tpc = "loop"
    /\ ti < Len(texpr)
    /\ titer < MaxIter
    /\ TokIterateTo(TokIter(texpr, ti, ttokens))
    /\ tprev' = ti
    /\ titer' = titer + 1
    /\ UNCHANGED <<texpr, tpc>>
    /\ UNCHANGED <<heap, root, pc, arg, result, stack, ret, pre, acc, conc, last, jsonIn, pure, order>>

\* the loop's exit and the return (lines 302-306)
TokReturn ==
    /\ tpc = "loop"
    /\ ti >= Len(texpr)
    /\ tpc' = "done"
    /\ UNCHANGED <<texpr, ti, tprev, ttokens, titer>>
    /\ UNCHANGED <<heap, root, pc, arg, result, stack, ret, pre, acc, conc, last, jsonIn, pure, order>>

InitTok == InitCalls({ZeroTree}) /\ InitTokenizer(Expressions) /\ pure = NoPure

NextTok == TokIterate \/ TokReturn

SpecTok == InitTok /\ [][NextTok]_vars

(***************************************************************************)
(* Two goroutines that call Validate on the same *Spec.                    *)
(***************************************************************************)
\* the two calls have both been running, and one has written a map that the
\* other has read or written: unsynchronised accesses to one Go map
Raced(p, q) ==
    p # q /\ conc[p].w \cap (conc[q].w \cup conc[q].r) # {}

\* The Go runtime may detect unsynchronised map accesses and end the process:
\* "fatal error: concurrent map writes" / "concurrent map read and map write".
Fault ==
    /\ \E p \in Procs, q \in Procs : Raced(p, q)
    /\ \E p \in Procs : pc[p] = "run"
    /\ pc' = [p \in Procs |-> "crashed"]
    /\ UNCHANGED <<heap, root, arg, result, stack, ret, pre, acc, conc, last, jsonIn>>
    /\ UNCHANGED <<tokVars, pure, order>>

InitConc == InitCalls(ConcTrees) /\ NoTokenizer /\ pure = NoPure

NextConc ==
    \/ \E p \in Procs, data \in ConcValues : Validate(p, data, root)
    \/ \E p \in Procs : Reorder(p)
    \/ \E p \in Procs : Step(p)
    \/ \E p \in Procs : Return(p)
    \/ Fault

SpecConc == InitConc /\ [][NextConc]_vars

(***************************************************************************)
(* Properties.  They speak of the validate call made last by a call p of   *)
(* Validate: last[p] holds its task, the heap h and the result r it began  *)
(* with, and `out`, what it came out with.                                 *)
(***************************************************************************)
\* the Spec node the last validate call of p was made on
LastNode(p) == last[p].h.specs[last[p].task.spec]

\* the last validate call of p was made on a Spec node, the range statements
\* in the orders that are current
NodeStep(p) ==
    /\ last[p].task.kind = "validate"
    /\ last[p].task.spec # 0
    /\ last[p].order = order

\* the last validate call of p was validateObject on an object, and returned
ObjectStep(p) ==
    /\ NodeStep(p)
    /\ last[p].task.value.k = "map"
    /\ LastNode(p).Type = "object"
    /\ ~last[p].out.hang

\* the errors the last validate call of p recorded
Added(p) ==
    SubSeq(last[p].out.r.Errors, Len(last[p].r.Errors) + 1, Len(last[p].out.r.Errors))

\* the object validated, the declared properties and the conditions of the node
Obj(p) == last[p].task.value.m
Declared(p) == DOMAIN MapOf(last[p].h, LastNode(p).Properties)
CondsOf(p) == IF LastNode(p).Conditions = None THEN <<>> ELSE Get(LastNode(p).Conditions)

\* the guard of condition j on the object's own fields, and the branch it selects
Guard(p, j) == evalExpression(CondsOf(p)[j].If, Obj(p))
Selected(p, j) ==
    IF Guard(p, j).val THEN CondsOf(p)[j].Then ELSE CondsOf(p)[j].Else
\* condition j evaluates, and the branch it selects names field f
Names(p, j, f) ==
    /\ Guard(p, j).st = "ok"
    /\ Selected(p, j) # 0
    /\ f \in DOMAIN last[p].h.maps[Selected(p, j)]
Failing(p) == {j \in 1..Len(CondsOf(p)) : Guard(p, j).st = "err"}

\* merge(base, override) on trees: override's constraints, type and required
\* list win where set, Properties are united, merging the specs of common names
RECURSIVE MergeTree(_, _)
MergeTreeMaps(bm, om) ==
    [k \in DOMAIN bm \cup DOMAIN om |->
        IF k \notin DOMAIN om THEN bm[k]
        ELSE IF k \notin DOMAIN bm THEN om[k]
        ELSE MergeTree(bm[k], om[k])]
MergeTree(b, o) ==
    [b EXCEPT !.Min = Override(o.Min, b.Min),
              !.Max = Override(o.Max, b.Max),
              !.MinLength = Override(o.MinLength, b.MinLength),
              !.MaxLength = Override(o.MaxLength, b.MaxLength),
              !.Pattern = Override(o.Pattern, b.Pattern),
              !.Enum = Override(o.Enum, b.Enum),
              !.AllowEmpty = Override(o.AllowEmpty, b.AllowEmpty),
              !.Type = IF o.Type # "" THEN o.Type ELSE b.Type,
              !.Required = Override(o.Required, b.Required),
              !.Properties =
                  IF o.Properties = None THEN b.Properties
                  ELSE Some(MergeTreeMaps(IF b.Properties = None THEN <<>>
                                          ELSE Get(b.Properties),
                                          Get(o.Properties)))]

\* the trees, before the call, of the base spec of field f and of the override
\* that condition j selects for it
BaseTree(p, f) ==
    Get(TreeOf(last[p].h, last[p].h.maps[LastNode(p).Properties][f]))
OverrideTree(p, j, f) ==
    Get(TreeOf(last[p].h, last[p].h.maps[Selected(p, j)][f]))

\* t merged with the overrides for f of the conditions j, j+1, ... in order
RECURSIVE FoldOverrides(_, _, _, _)
FoldOverrides(p, f, t, j) ==
    IF j > Len(CondsOf(p)) THEN t
    ELSE FoldOverrides(p, f,
                       IF Names(p, j, f) THEN MergeTree(t, OverrideTree(p, j, f)) ELSE t,
                       j + 1)

\* the recursive calls the last call of p made for field f, and the tree of
\* the spec such a call was given
CallsFor(p, f) ==
    {k \in 1..Len(last[p].out.tasks) :
        last[p].out.tasks[k].path = buildPath(last[p].task.path, f)}
CallTree(p, k) == Get(TreeOf(last[p].out.h, last[p].out.tasks[k].spec))

\* the call p returned from Validate
Returned(p) == pc[p] = "done" /\ ret[p].result # None

(***************************************************************************)
(* C1: Validate(value, spec) leaves the Spec tree unchanged: when the call *)
(* has returned, every node reachable from spec, and every Properties map, *)
(* holds what it held when the call was made.                              *)
(***************************************************************************)
C1_SpecTreeUnchanged ==
    \A p \in Procs :
        Returned(p) => TreeOf(heap, arg[p].spec) = TreeOf(pre[p], arg[p].spec)

(***************************************************************************)
(* C2: two Validate calls running concurrently on one Spec tree never      *)
(* race: neither writes a Properties map that the other reads or writes.   *)
(***************************************************************************)
C2_NoRace == \A p \in Procs, q \in Procs : ~Raced(p, q)

(***************************************************************************)
(* C3: the tokenizer's cursor advances on every iteration of its outer     *)
(* loop (so that the loop, and with it Validate, terminates).              *)
(***************************************************************************)
C3_CursorAdvances == titer > 0 => ti > tprev

(***************************************************************************)
(* C4: for an object spec with Properties and one condition whose guard    *)
(* evaluates, each declared field f present in the value is validated      *)
(* exactly once, against merge(base_f, T[f]) when the guard is true and    *)
(* Then names f, against merge(base_f, E[f]) when it is false and Else     *)
(* names f, and against base_f alone otherwise.  With "then v.minLength 1" *)
(* on "e == true", {e: true, v: ""} fails with one error at path v and     *)
(* {e: false, v: ""} passes.                                               *)
(***************************************************************************)
C4Case(p) ==
    /\ ObjectStep(p)
    /\ LastNode(p).Properties # 0
    /\ Len(CondsOf(p)) = 1
    /\ Guard(p, 1).st = "ok"

C4Expected(p, f) ==
    IF Names(p, 1, f) THEN MergeTree(BaseTree(p, f), OverrideTree(p, 1, f))
    ELSE BaseTree(p, f)

C4Step(p) ==
    C4Case(p) =>
        \A f \in Declared(p) \cap DOMAIN Obj(p) :
            /\ Cardinality(CallsFor(p, f)) = 1
            /\ \A k \in CallsFor(p, f) : CallTree(p, k) = C4Expected(p, f)

C4Spec == Some(ObjectTree(Some(<<CondThen>>), None))
C4Enabled == MapV((fe :> BoolV(TRUE)) @@ (fv :> StrV(<<>>)))
C4Disabled == MapV((fe :> BoolV(FALSE)) @@ (fv :> StrV(<<>>)))

C4Example(p) ==
    (Returned(p) /\ TreeOf(pre[p], arg[p].spec) = C4Spec) =>
        /\ arg[p].data = C4Enabled =>
              /\ Len(result[p].Errors) = 1
              /\ result[p].Errors[1].Path = fv
              /\ result[p].Errors[1].Message.fmt
                    = "string length %d is less than minimum %d"
        /\ arg[p].data = C4Disabled => result[p].Valid /\ result[p].Errors = <<>>

C4_BranchSelection == \A p \in Procs : C4Step(p) /\ C4Example(p)

\* a true guard whose Then names the present field v: v is validated against
\* its base spec merged with the override
C4_Witness ==
    \E p \in Procs :
        /\ C4Case(p)
        /\ fv \in DOMAIN Obj(p)
        /\ Guard(p, 1).val
        /\ Names(p, 1, fv)
        /\ \E k \in CallsFor(p, fv) :
              CallTree(p, k).MinLength = Some(1) /\ CallTree(p, k).Type = "string"

(***************************************************************************)
(* C5: in every ValidationResult Valid is true exactly when Errors is      *)
(* empty, in the result Validate returns and at every point of the pass.   *)
(***************************************************************************)
ValidIffNoErrors(r) == r.Valid <=> (r.Errors = <<>>)

C5_ValidIffNoErrors ==
    \A p \in Procs :
        /\ ValidIffNoErrors(result[p])
        /\ ret[p].result # None => ValidIffNoErrors(Get(ret[p].result))

\* a call returned a result that holds errors
C5_Witness ==
    \E p \in Procs :
        /\ Returned(p)
        /\ Len(Get(ret[p].result).Errors) >= 2
        /\ ~Get(ret[p].result).Valid

(***************************************************************************)
(* C6: when the evaluation of conditions of an object node fails, the      *)
(* validate call on that node records one error at the root path "" for    *)
(* each such condition, in order, applies the overrides of the other       *)
(* conditions only, and still makes the Required check and validates       *)
(* every declared property that is present.                                *)
(***************************************************************************)
C6Case(p) ==
    /\ ObjectStep(p)
    /\ LastNode(p).Properties # 0
    /\ Failing(p) # {}

IsConditionError(e) == e.Message.fmt = "error evaluating condition '%s': %v"
ConditionErrors(p) == SelectSeq(Added(p), IsConditionError)
FailingInOrder(p) ==
    SelectSeq([j \in 1..Len(CondsOf(p)) |-> j], LAMBDA j : j \in Failing(p))

IsMissingError(e) == e.Message.fmt = "required field is missing"
MissingErrors(p) == SelectSeq(Added(p), IsMissingError)
MissingNames(p) ==
    IF LastNode(p).Required = None THEN <<>>
    ELSE SelectSeq(Get(LastNode(p).Required), LAMBDA n : n \notin DOMAIN Obj(p))

C6Step(p) ==
    C6Case(p) =>
        \* one error at the root path for each failing condition, in order
        /\ Len(ConditionErrors(p)) = Len(FailingInOrder(p))
        /\ \A k \in 1..Len(ConditionErrors(p)) :
              /\ ConditionErrors(p)[k].Path = <<>>
              /\ ConditionErrors(p)[k].Message.args[1]
                    = StrV(CondsOf(p)[FailingInOrder(p)[k]].If)
        \* the effective specs are those of the conditions that evaluate
        /\ DOMAIN last[p].out.eff
              = {f \in DOMAIN last[p].out.eff : \E j \in 1..Len(CondsOf(p)) : Names(p, j, f)}
        /\ \A f \in Declared(p) :
              IF \E j \in 1..Len(CondsOf(p)) : Names(p, j, f)
              THEN /\ f \in DOMAIN last[p].out.eff
                   /\ Get(TreeOf(last[p].out.h, last[p].out.eff[f]))
                         = FoldOverrides(p, f, BaseTree(p, f), 1)
              ELSE f \notin DOMAIN last[p].out.eff
        \* the Required check is made
        /\ Len(MissingErrors(p)) = Len(MissingNames(p))
        \* every declared property that is present is validated
        /\ \A f \in Declared(p) \cap DOMAIN Obj(p) : Cardinality(CallsFor(p, f)) = 1

C6_EvalErrorSkipsCondition == \A p \in Procs : C6Step(p)

\* the first of two conditions fails, the second applies an override to v, and
\* a required name is missing
C6_Witness ==
    \E p \in Procs :
        /\ C6Case(p)
        /\ Failing(p) = {1}
        /\ Len(CondsOf(p)) = 2
        /\ fv \in DOMAIN last[p].out.eff
        /\ MissingNames(p) # <<>>

(***************************************************************************)
(* C7: for every object spec and object value, each name of the spec's     *)
(* Required list that is no key of the value yields one "required field is *)
(* missing" error at path <path>.<name>, whatever the conditions of the    *)
(* object evaluate to and whatever their overrides hold; the conditions    *)
(* add no required name and remove none.                                   *)
(***************************************************************************)
C7Step(p) ==
    ObjectStep(p) =>
        /\ Len(MissingErrors(p)) = Len(MissingNames(p))
        /\ \A k \in 1..Len(MissingErrors(p)) :
              MissingErrors(p)[k].Path = buildPath(last[p].task.path, MissingNames(p)[k])

C7_RequiredIgnoresConditions == \A p \in Procs : C7Step(p)

\* a condition applies an override to the field v, another fails to evaluate,
\* and v is required and missing
C7_Witness ==
    \E p \in Procs :
        /\ ObjectStep(p)
        /\ \E j \in 1..Len(CondsOf(p)) : Names(p, j, fv)
        /\ Failing(p) # {}
        /\ MissingNames(p) = <<fv, fz>>
        /\ Len(MissingErrors(p)) = 2

(***************************************************************************)
(* C8: conditions are applied in declaration order: when two conditions    *)
(* both select an override for a declared field f, the effective spec of f *)
(* is merge(merge(base_f, C1_f), C2_f), the guards being evaluated on the  *)
(* object's own field values.                                              *)
(***************************************************************************)
Naming(p, f) == {j \in 1..Len(CondsOf(p)) : Names(p, j, f)}

C8Case(p) == ObjectStep(p) /\ LastNode(p).Properties # 0

C8Step(p) ==
    C8Case(p) =>
        \A f \in Declared(p) :
            Cardinality(Naming(p, f)) >= 2 =>
                /\ f \in DOMAIN last[p].out.eff
                /\ Get(TreeOf(last[p].out.h, last[p].out.eff[f]))
                      = FoldOverrides(p, f, BaseTree(p, f), 1)

C8_DeclarationOrder == \A p \in Procs : C8Step(p)

\* "e == true" sets v.minLength 1, then "v" sets v.minLength 3: the effective
\* spec of v holds 3
C8_Witness ==
    \E p \in Procs :
        /\ C8Case(p)
        /\ Naming(p, fv) = {1, 2}
        /\ OverrideTree(p, 1, fv).MinLength = Some(1)
        /\ OverrideTree(p, 2, fv).MinLength = Some(3)
        /\ fv \in DOMAIN last[p].out.eff
        /\ Get(TreeOf(last[p].out.h, last[p].out.eff[fv])).MinLength = Some(3)

(***************************************************************************)
(* C9: validating any value, null included, against a Spec with no Type    *)
(* adds no type error: neither "unknown type" nor "expected type ..., got  *)
(* null".                                                                  *)
(***************************************************************************)
IsTypeError(e) ==
    e.Message.fmt \in {"unknown type: %s", "expected type %s, got null"}

C9_NoTypeErrorWithoutType ==
    \A p \in Procs :
        (NodeStep(p) /\ LastNode(p).Type = "") =>
            \A k \in 1..Len(Added(p)) : ~IsTypeError(Added(p)[k])

(***************************************************************************)
(* C10: ValidateJSON / ValidateJSONString, given input that is no          *)
(* well-formed JSON, returns a ValidationResult with Valid = false and one *)
(* error whose path is empty and whose message starts with                 *)
(* "invalid JSON: ".                                                       *)
(***************************************************************************)
IsInvalidJSON(e) ==
    /\ e.Path = <<>>
    /\ e.Message.fmt \in {"invalid JSON: %w", "invalid JSON: %v", "invalid JSON: %s"}

C10_InvalidJSONResult ==
    \A p \in Procs :
        (pc[p] = "done" /\ jsonIn[p] # None /\ ~Unmarshal(Get(jsonIn[p])).ok) =>
            /\ ret[p].result # None
            /\ ~Get(ret[p].result).Valid
            /\ Len(Get(ret[p].result).Errors) = 1
            /\ IsInvalidJSON(Get(ret[p].result).Errors[1])

(***************************************************************************)
(* MergeSpecs (structs.go, lines 301-373), the exported merge.  It differs *)
(* from the validator's mergeSpecs in that the override's Items and        *)
(* Conditions replace the base's, and in that a key the base lacks is      *)
(* merged with nil.                                                        *)
(***************************************************************************)
\* merged := &Spec{...} with the overrides of lines 337-370
exportedFields(b, o) ==
    [mergedFields(b, o) EXCEPT
       !.Items = IF o.Items # 0 THEN o.Items ELSE b.Items,
       !.Conditions = Override(o.Conditions, b.Conditions)]

RECURSIVE MergeSpecs(_, _, _)
RECURSIVE exportedProperties(_, _, _, _)

\* the loop of lines 332-334 without its store: a faulty variant of
\* exportedStore, with which the base's entry stays
exportedStoreSkipped(m, mp, omp, keys) ==
    exportedProperties(m.h, mp, omp, Tail(keys))

\* merged.Properties[k] = MergeSpecs(merged.Properties[k], v) (line 333), m the
\* result of the call
exportedStore(m, mp, omp, keys) ==
    exportedProperties(MapStore(m.h, mp, Head(keys), m.id), mp, omp, Tail(keys))
\* merged.Properties[k] reads as nil where the key is missing
exportedProperty(h, mp, omp, keys, k) ==
    exportedStore(MergeSpecs(MapRead(h, mp),
                             IF k \in DOMAIN h.maps[mp] THEN h.maps[mp][k] ELSE 0,
                             h.maps[omp][k]),
                  mp, omp, keys)
\* for k, v := range override.Properties { ... } (lines 332-334)
exportedProperties(h, mp, omp, keys) ==
    IF keys = <<>> THEN h ELSE exportedProperty(h, mp, omp, keys, Head(keys))

\* the two loops of lines 329-334 on merged.Properties = mp
exportedMaps(h, id, mp, omp) ==
    mergeFinish(exportedProperties(MapRead(h, omp), mp, omp, RangeOver(h.maps[omp], "merge")),
                id, mp)
\* the Properties part of MergeSpecs (lines 325-335); merged.Properties is
\* base's map itself unless that is nil
exportedInto(h0, id, b, o) ==
    IF o.Properties = 0 THEN [h |-> h0, id |-> id]
    ELSE exportedMaps(IF b.Properties = 0 THEN NewMap(h0, <<>>)
                      ELSE baseRange(h0, b.Properties),
                      id,
                      IF b.Properties = 0 THEN Len(h0.maps) + 1 ELSE b.Properties,
                      o.Properties)
exportedNodes(h, b, o) ==
    exportedInto(NewSpec(h, exportedFields(b, o)), Len(h.specs) + 1, b, o)

\* [h, id]: the heap after the call and the *Spec it returns
MergeSpecs(h, base, override) ==
    IF base = 0 THEN [h |-> h, id |-> override]
    ELSE IF override = 0 THEN [h |-> h, id |-> base]
    ELSE exportedNodes(h, h.specs[base], h.specs[override])

(***************************************************************************)
(* The two merges called on their own: merge(A, B), and then               *)
(* merge(merge(A, B), B) on the heap the first call left.                  *)
(***************************************************************************)
\* the depth to which the specs handed to the merges nest Properties
MaxDepth == 2

MergeLeaves == {ZeroTree, TypeSpec("string"), MinLen(1)}

RECURSIVE NestedTrees(_)
\* the specs nesting Properties to depth d at most, one key a level
NestedTrees(d) ==
    IF d = 0 THEN MergeLeaves
    ELSE MergeLeaves \cup {Props(<<>>)}
           \cup {Props(k :> t) : k \in {fx, fz}, t \in NestedTrees(d - 1)}

\* specs that set every scalar constraint, and one that sets some
ScalarsA ==
    [ZeroTree EXCEPT !.Type = "string", !.Min = Some(FloatV(1, 0)), !.Max = Some(FloatV(9, 0)),
                     !.MinLength = Some(1), !.MaxLength = Some(5),
                     !.Pattern = Some(<<"a">>), !.Enum = Some(<<StrV(<<"a">>)>>),
                     !.AllowEmpty = Some(TRUE)]
ScalarsB ==
    [ZeroTree EXCEPT !.Type = "number", !.Max = Some(FloatV(15, 1)),
                     !.MinLength = Some(0), !.Pattern = Some(<<>>),
                     !.Enum = Some(<<>>), !.AllowEmpty = Some(FALSE)]

\* specs with two keys, and with Items, Required and Conditions
WideTrees ==
    {Props((fx :> MinLen(3)) @@ (fz :> TypeSpec("string"))),
     [Props(fo :> Props(fx :> TypeSpec("string"))) EXCEPT
        !.Type = "object", !.Required = Some(<<fo>>),
        !.Conditions = Some(<<CondInner>>)],
     [Props(fo :> Props(fx :> MinLen(1))) EXCEPT
        !.Required = Some(<<fx, fz>>), !.Conditions = Some(<<CondThen>>),
        !.Items = Some(MinLen(1))],
     [ZeroTree EXCEPT !.Type = "array", !.Items = Some(TypeSpec("string")),
                      !.Required = Some(<<>>)],
     ScalarsA, ScalarsB, Props(fx :> ScalarsB)}

MergeTrees == NestedTrees(MaxDepth) \cup WideTrees

\* an optional tree loaded: nil stays nil
LoadOption(h, t) == IF t = None THEN [h |-> h, id |-> 0] ELSE LoadSpec(h, Get(t))

\* base and override built by the caller, base first
InitMergeLoaded(a, b) ==
    /\ heap = b.h
    /\ root = a.id
    /\ pure = [fn |-> "", in |-> <<a.id, b.id>>, out |-> <<>>]
InitMergeBase(a, tb) == InitMergeLoaded(a, LoadOption(a.h, tb))

RECURSIVE MostNames(_)
\* the largest number of names in a properties object of the tree
MostNames(t) ==
    Max({0}
        \cup (IF t.Items = None THEN {} ELSE {MostNames(Get(t.Items))})
        \cup (IF t.Properties = None THEN {}
              ELSE {Cardinality(DOMAIN Get(t.Properties))}
                     \cup {MostNames(Get(t.Properties)[k]) : k \in DOMAIN Get(t.Properties)}))
\* the orders in which `for k, v := range override.Properties` (part_007
\* line 419, structs.go line 332) can visit the keys of the override's maps
MergeOrders(tb) ==
    {[DeclaredOrder EXCEPT !.merge = code] :
        code \in 0..(Factorial(IF tb = None THEN 0 ELSE MostNames(Get(tb))) - 1)}

InitMerge ==
    /\ \E ta \in {None} \cup {Some(t) : t \in MergeTrees},
          tb \in {None} \cup {Some(t) : t \in MergeTrees} :
           /\ InitMergeBase(LoadOption(EmptyHeap, ta), tb)
           /\ order \in MergeOrders(tb)
    /\ NoCalls
    /\ NoTokenizer

\* the base of the next call: A, then the result of the call before
MergeBase == IF pure.out = <<>> THEN pure.in[1] ELSE pure.out[Len(pure.out)].id

\* the call returned m: it is recorded with its arguments and the heap it found
Merged(fn, base, m) ==
    /\ heap' = [m.h EXCEPT !.w = {}, !.r = {}]
    /\ pure' = [pure EXCEPT
                  !.fn = fn,
                  !.out = Append(pure.out,
                                 [base |-> base, override |-> pure.in[2],
                                  pre |-> heap, id |-> m.id])]
    /\ UNCHANGED <<root, pc, arg, result, stack, ret, pre, acc, conc, last, jsonIn>>
    /\ UNCHANGED <<tokVars, order>>

\* merged := MergeSpecs(base, override)
CallExported ==
    /\ pure.fn \in {"", "MergeSpecs"}
    /\ Len(pure.out) < 2
    /\ Merged("MergeSpecs", MergeBase, MergeSpecs(heap, MergeBase, pure.in[2]))

\* merged := r.mergeSpecs(base, override)
CallResolver ==
    /\ pure.fn \in {"", "mergeSpecs"}
    /\ Len(pure.out) < 2
    /\ Merged("mergeSpecs", MergeBase, mergeSpecs(heap, MergeBase, pure.in[2]))

NextMerge == CallExported \/ CallResolver

SpecMerge == InitMerge /\ [][NextMerge]_vars

\* the heap as call k of the merge left it
HeapAfter(k) == IF k < Len(pure.out) THEN pure.out[k + 1].pre ELSE heap
\* the trees of the arguments of call k before the call and after it, and the
\* tree of its result
BaseBefore(k) == Get(TreeOf(pure.out[k].pre, pure.out[k].base))
BaseAfter(k) == Get(TreeOf(HeapAfter(k), pure.out[k].base))
OverrideBefore(k) == Get(TreeOf(pure.out[k].pre, pure.out[k].override))
OverrideAfter(k) == Get(TreeOf(HeapAfter(k), pure.out[k].override))
MergedTree(k) == Get(TreeOf(HeapAfter(k), pure.out[k].id))
\* call k was made on two specs
BothGiven(k) == pure.out[k].base # 0 /\ pure.out[k].override # 0

(***************************************************************************)
(* C11: merge(base, override), MergeSpecs and mergeSpecs alike, modifies   *)
(* neither input: with Properties non-nil on both sides, base.Properties   *)
(* and override.Properties hold the same keys and specs after the call as  *)
(* before.                                                                 *)
(***************************************************************************)
C11_MergeKeepsInputs ==
    \A k \in 1..Len(pure.out) :
        (/\ BothGiven(k)
         /\ BaseBefore(k).Properties # None
         /\ OverrideBefore(k).Properties # None) =>
            /\ BaseAfter(k).Properties = BaseBefore(k).Properties
            /\ OverrideAfter(k).Properties = OverrideBefore(k).Properties

(***************************************************************************)
(* C12: merge is idempotent in its second argument: merge(merge(A, B), B)  *)
(* is structurally equal to merge(A, B).                                   *)
(***************************************************************************)
C12_MergeIdempotent ==
    Len(pure.out) = 2 =>
        /\ TreeOf(heap, pure.out[2].id) = TreeOf(pure.out[2].pre, pure.out[1].id)
        /\ TreeOf(heap, pure.out[2].id) = TreeOf(heap, pure.out[1].id)

\* both calls were made, A and B share the key x with Properties under it on
\* both sides, and the merge differs from A
C12_Witness ==
    /\ Len(pure.out) = 2
    /\ BothGiven(1)
    /\ BaseBefore(1).Properties # None
    /\ OverrideBefore(1).Properties # None
    /\ fx \in DOMAIN Get(BaseBefore(1).Properties)
    /\ fx \in DOMAIN Get(OverrideBefore(1).Properties)
    /\ Get(BaseBefore(1).Properties)[fx].Properties # None
    /\ Get(OverrideBefore(1).Properties)[fx].Properties \notin {None, Some(<<>>)}
    /\ MergedTree(1) # BaseBefore(1)

(***************************************************************************)
(* C13: in merge(base, override) the result's Required is the override's   *)
(* list when the override carries one and the base's otherwise, and        *)
(* likewise its Conditions; for MergeSpecs and for the resolver's          *)
(* mergeSpecs.                                                             *)
(***************************************************************************)
C13_RequiredConditionsReplace ==
    \A k \in 1..Len(pure.out) :
        BothGiven(k) =>
            /\ MergedTree(k).Required
                  = Override(OverrideBefore(k).Required, BaseBefore(k).Required)
            /\ MergedTree(k).Conditions
                  = Override(OverrideBefore(k).Conditions, BaseBefore(k).Conditions)

(***************************************************************************)
(* Validate on specs that carry an Enum.                                   *)
(***************************************************************************)
\* the length of the Enum lists
MaxEnum == 2

three == <<"3">>
\* the values validated and the members of the lists: 3 as int, int64 and
\* float64, 3.5, NaN, the string "3", true
EnumValues ==
    {IntV(3), Int64V(3), FloatV(3, 0), FloatV(35, 1), NaN, IntV(4), StrV(three),
     BoolV(TRUE)}
EnumMembers == {IntV(3), Int64V(3), FloatV(3, 0), FloatV(35, 1), NaN, StrV(three), NilV}

EnumTrees ==
    {[TypeSpec(t) EXCEPT !.Enum = Some(enum)] :
        t \in {"number", "integer", "string"},
        enum \in SeqsUpTo(EnumMembers, MaxEnum)}

InitEnum == InitCalls(EnumTrees) /\ NoTokenizer /\ pure = NoPure

NextEnum ==
    \/ \E data \in EnumValues : Validate(1, data, root)
    \/ Step(1)
    \/ Return(1)

SpecEnum == InitEnum /\ [][NextEnum]_vars

\* both numeric and numerically equal, or of one kind and equal
IsNumeric(v) == v.k \in {"int", "int64", "float64"}
EnumMatches(v, m) ==
    \/ IsNumeric(v) /\ IsNumeric(m) /\ FloatEq(Get(toFloat64(v)), Get(toFloat64(m)))
    \/ ~IsNumeric(v) /\ v.k = m.k /\ v = m

IsEnumError(e) == e.Message.fmt = "value not in enum: %v (allowed: %v)"
EnumErrors(p) == SelectSeq(Added(p), IsEnumError)

(***************************************************************************)
(* C14: enum membership coerces across the numeric kinds: a value matches  *)
(* a member when both are numeric and numerically equal (int 3 and float64 *)
(* 3.0) or when they are of one kind and equal; the validate call adds one *)
(* "value not in enum" error when no member matches and none otherwise.    *)
(***************************************************************************)
C14_EnumCoercesNumbers ==
    \A p \in Procs :
        (NodeStep(p) /\ HasEnum(LastNode(p)) /\ last[p].task.value.k # "nil") =>
            Len(EnumErrors(p))
                = IF \E j \in 1..Len(Get(LastNode(p).Enum)) :
                        EnumMatches(last[p].task.value, Get(LastNode(p).Enum)[j])
                  THEN 0 ELSE 1

(***************************************************************************)
(* Validate on array specs.                                                *)
(***************************************************************************)
\* the length of the arrays validated
MaxItems == 3

ten == FloatV(10, 0)
\* items: integer in 0..100, a non-empty string, an integer of a one-member
\* enum, and an object with properties e, v and o whose condition "e"
\* overrides the property x of o
ItemSpecs ==
    {[TypeSpec("integer") EXCEPT !.Min = Some(FloatV(0, 0)), !.Max = Some(FloatV(100, 0))],
     [TypeSpec("string") EXCEPT !.MinLength = Some(1)],
     [TypeSpec("integer") EXCEPT !.Enum = Some(<<ten>>)],
     ObjectTree(Some(<<CondNested>>), None)}

ArrayTrees ==
    {[TypeSpec("array") EXCEPT !.Items = items, !.MinLength = mn, !.MaxLength = mx] :
        items \in {None} \cup {Some(t) : t \in ItemSpecs},
        mn \in {None, Some(2)}, mx \in {None, Some(1)}}

\* the elements: numbers, the empty string, and the objects {e, o: {x: ""}}
Elements ==
    {ten, FloatV(200, 0), FloatV(30, 0), StrV(<<>>)}
      \cup {MapV((fe :> BoolV(b)) @@ (fo :> MapV(fx :> StrV(<<>>)))) : b \in BOOLEAN}
ArrayValues == {SliceV(a) : a \in SeqsUpTo(Elements, MaxItems)}

InitArray == InitCalls(ArrayTrees) /\ NoTokenizer /\ pure = NoPure

NextArray ==
    \/ \E data \in ArrayValues : Validate(1, data, root)
    \/ Step(1)
    \/ Return(1)

SpecArray == InitArray /\ [][NextArray]_vars

RECURSIVE RunTasks(_, _, _)
\* the calls of r.validate of a work list made one after the other, every
\* range statement in the current order: [hang, r], hang when one of them
\* does not return
RunNext(o, rest) ==
    IF o.hang THEN [hang |-> TRUE, r |-> o.r] ELSE RunTasks(o.h, o.r, o.tasks \o rest)
RunTasks(h, r, tasks) ==
    IF tasks = <<>> THEN [hang |-> FALSE, r |-> r]
    ELSE RunNext(runTask(h, r, Head(tasks)), Tail(tasks))

\* Validate(data, spec) (lines 74-87) on the Spec objects of heap h: a nil
\* spec gives the one error "spec is nil", any other spec what
\* result.validate("", data, spec) leaves in the result; [hang, r], hang
\* when the call does not return
ValidateOn(h, data, spec) ==
    IF spec = 0
    THEN [hang |-> FALSE, r |-> addError(NewResult, <<>>, Msg("spec is nil", <<>>))]
    ELSE RunTasks(h, NewResult, <<Task("validate", <<>>, data, spec)>>)

\* the multiset of a sequence of errors
ErrorBag(errors) ==
    [e \in {errors[k] : k \in DOMAIN errors} |->
        Cardinality({k \in DOMAIN errors : errors[k] = e})]
\* the same verdict and the same errors, in whatever order the range
\* statements produced them
SameErrors(r1, r2) == r1.Valid = r2.Valid /\ ErrorBag(r1.Errors) = ErrorBag(r2.Errors)
\* the call v returns, and returns what r holds
ReturnsSame(r, v) == ~v.hang /\ SameErrors(r, v.r)

\* the errors of r at the paths that begin with prefix, in order
ErrorsUnder(r, prefix) == SelectSeq(r.Errors, LAMBDA e : HasPrefixAt(e.Path, 0, prefix))

\* the errors of r at path, in order
ErrorsAt(r, path) == SelectSeq(r.Errors, LAMBDA e : e.Path = path)
\* element i (from 0) of the array validated by call p, and the errors of
\* validating it alone, at its path, against Items as the caller built it:
\* r.validate on the element and the calls that follow from it
Element(p, i) == arg[p].data.a[i + 1]
ItemsOf(p) == pre[p].specs[arg[p].spec].Items
AloneErrors(p, i) ==
    RunTasks(pre[p], NewResult,
             <<Task("validate", buildArrayPath(<<>>, i), Element(p, i), ItemsOf(p))>>).r.Errors
ArrayPaths(p) == {buildArrayPath(<<>>, i) : i \in 0..(Len(arg[p].data.a) - 1)}

C15Case(p) ==
    /\ Returned(p)
    /\ arg[p].spec # 0
    /\ pre[p].specs[arg[p].spec].Type = "array"
    /\ ItemsOf(p) # 0
    /\ arg[p].data.k = "slice"

C15Example(p) ==
    (/\ C15Case(p)
     /\ TreeOf(pre[p], ItemsOf(p))
           = Some([TypeSpec("integer") EXCEPT !.Min = Some(FloatV(0, 0)),
                                              !.Max = Some(FloatV(100, 0))])
     /\ arg[p].data = SliceV(<<ten, FloatV(200, 0), FloatV(30, 0)>>)
     /\ pre[p].specs[arg[p].spec].MinLength = None
     /\ pre[p].specs[arg[p].spec].MaxLength = None) =>
        /\ Len(result[p].Errors) = 1
        /\ result[p].Errors[1].Path = <<"[", "1", "]">>

\* the errors under [i] are those of element i alone, and every other error
\* is at the array's own path
ElementsAlone(p) ==
    /\ \A i \in 0..(Len(arg[p].data.a) - 1) :
          ErrorsUnder(result[p], buildArrayPath(<<>>, i)) = AloneErrors(p, i)
    /\ \A k \in 1..Len(result[p].Errors) :
          \/ result[p].Errors[k].Path = <<>>
          \/ \E path \in ArrayPaths(p) : HasPrefixAt(result[p].Errors[k].Path, 0, path)

(***************************************************************************)
(* C15: for an array with an Items spec every element is validated, also   *)
(* when the length constraints or other elements fail, and the errors      *)
(* under path [i] are those of validating element i alone against Items;   *)
(* [10, 200, 30] against items integer 0..100 yields one error, at [1].    *)
(***************************************************************************)
C15_ItemsIndependent ==
    \A p \in Procs : (C15Case(p) => ElementsAlone(p)) /\ C15Example(p)

\* the same for Items that have no Properties, where no call of mergeSpecs
\* writes into the Items spec
C15_LeafItemsIndependent ==
    \A p \in Procs :
        ((C15Case(p) /\ pre[p].specs[ItemsOf(p)].Properties = 0) => ElementsAlone(p))
          /\ C15Example(p)

\* three elements of which two fail, in an array longer than MaxLength
C15_LeafWitness ==
    \E p \in Procs :
        /\ C15Case(p)
        /\ pre[p].specs[ItemsOf(p)].Properties = 0
        /\ Len(arg[p].data.a) = 3
        /\ ErrorsAt(result[p], <<>>) # <<>>
        /\ AloneErrors(p, 0) # <<>>
        /\ AloneErrors(p, 1) = <<>>
        /\ AloneErrors(p, 2) # <<>>

\* an array of two objects: the condition holds for the first, and the second
\* has an error under [1] that it does not have alone
C15_ObjectItems ==
    \E p \in Procs :
        /\ C15Case(p)
        /\ Len(arg[p].data.a) = 2
        /\ AloneErrors(p, 1) = <<>>
        /\ ErrorsUnder(result[p], buildArrayPath(<<>>, 1)) # <<>>

(***************************************************************************)
(* evalExpression and evaluateComparison called on their own.              *)
(***************************************************************************)
\* the number of words of the expressions evaluated
MaxWords == 4

wa == <<"a">>
wLP == <<"(">>
wRP == <<")">>
wAND == <<"A","N","D">>
wOR == <<"O","R">>
wEQ == <<"=","=">>
Words == {wa, wLP, wRP, wAND, wOR, wEQ}

RECURSIVE JoinWords(_)
\* the words written one after the other with a space between
JoinWords(ws) ==
    IF ws = <<>> THEN <<>>
    ELSE IF Len(ws) = 1 THEN ws[1]
    ELSE ws[1] \o <<" ">> \o JoinWords(Tail(ws))

\* the grammar of the expression language on words: the sequences of at most
\* n words that are an expression, generated from the inside out
Shorter(S, n) == {ws \in S : Len(ws) <= n}
RECURSIVE Chains(_, _, _, _)
\* one or more members of S with the word sep between them
Chains(S, sep, n, k) ==
    IF k <= 1 THEN S
    ELSE Chains(S \cup Shorter({x \o <<sep>> \o y : x \in S, y \in Shorter(S, n - 2)}, n),
                sep, n, k - 1)
RECURSIVE Expressible(_, _)
Comparisons(n, d) ==
    {<<wa>>, <<wa, wEQ, wa>>}
      \cup (IF d = 0 THEN {}
            ELSE {<<wLP>> \o e \o <<wRP>> : e \in Shorter(Expressible(n - 2, d - 1), n - 2)})
Expressible(n, d) ==
    Chains(Chains(Shorter(Comparisons(n, d), n), wAND, n, n), wOR, n, n)
WellFormed == Expressible(MaxWords + 2, (MaxWords + 2) \div 2)

\* the expressions of the error scenarios, as written
spc == <<" ">>
ErrorExamples ==
    { <<>>, spc \o spc,
      wa \o spc \o wAND, wOR \o spc \o wa, wa \o spc \o wEQ,
      wa \o spc \o <<"b">>,
      wLP \o wa \o spc \o wAND \o spc \o <<"b">> \o wRP \o wRP,
      wLP \o wa, wa \o wRP }

wb == <<"b">>
wc == <<"c">>
\* "a OR b AND c", "a AND b OR c", "(a OR b) AND c"
OrAnd == JoinWords(<<wa, wOR, wb, wAND, wc>>)
AndOr == JoinWords(<<wa, wAND, wb, wOR, wc>>)
ParenOrAnd == wLP \o JoinWords(<<wa, wOR, wb>>) \o wRP \o spc \o JoinWords(<<wAND, wc>>)
BoolObjs ==
    {(wa :> BoolV(x)) @@ (wb :> BoolV(y)) @@ (wc :> BoolV(z)) :
        x \in BOOLEAN, y \in BOOLEAN, z \in BOOLEAN}

\* the contexts of the word expressions: a true, a false, a missing
WordObjs == {wa :> BoolV(TRUE), wa :> BoolV(FALSE), <<>>}

\* comparisons on the name z, which no context holds
RightLiterals ==
    {<<"n","u","l","l">>, <<"n","i","l">>, <<" ","n","i","l"," ">>, <<"N","U","L","L">>,
     <<"t","r","u","e">>, <<"1">>, <<"'","n","i","l","'">>, <<"z">>}
MissingObjs == {<<>>, wa :> NilV, wa :> BoolV(TRUE)}

\* comparisons on the name a, which the context holds: numbers of the three
\* kinds, a string, a boolean, nil
PresentValues ==
    {IntV(2), Int64V(-1), FloatV(15, 1), FloatV(2, 0), StrV(<<"2">>), BoolV(TRUE), NilV}
OrderLiterals ==
    {<<"2">>, <<"1",".","5">>, <<"-","1">>, <<"2",".","0">>, <<"3">>, <<"'","2","'">>,
     <<"t","r","u","e">>, <<"n","i","l">>, <<"x">>, <<"1","e","3">>}

ExprIn(expr, words, obj) ==
    [kind |-> "expr", expr |-> expr, words |-> words, obj |-> obj]
CmpIn(left, op, right, obj) ==
    [kind |-> "cmp", left |-> left, op |-> op, right |-> right, obj |-> obj]

PairIn(l, op, r, obj) ==
    [kind |-> "pair", expr |-> l \o spc \o op \o spc \o r, left |-> l, op |-> op,
     right |-> r, obj |-> obj]

\* operands of AND and OR: constants, a boolean field, a comparison that is
\* true, comparisons of the string x with a number, which fail to evaluate
fnumber == <<"n">>
Operands ==
    {<<"t","r","u","e">>, <<"f","a","l","s","e">>, wa,
     <<"n"," ",">"," ","1">>, <<"x"," ",">"," ","1">>, <<"(","x"," ","<","="," ","1",")">>}
PairObjs ==
    {(wa :> BoolV(b)) @@ (fx :> StrV(<<"s">>)) @@ (fnumber :> FloatV(2, 0)) : b \in BOOLEAN}

\* comparisons of the string field name with a quoted literal: one that
\* doubles its quote character, one that holds AND and parentheses
fname == <<"n","a","m","e">>
QuotedIn(expr, obj) == [kind |-> "quoted", expr |-> expr, obj |-> obj]
ItsDoubled == <<"i","t","'","'","s">>
ItsSingle == <<"i","t","'","s">>
AAndB == <<"a"," ","A","N","D"," ","(","b",")">>
SayDoubled == <<"s","a","y","\"","\"","s">>
SaySingle == <<"s","a","y","\"","s">>
QuotedApostrophe == fname \o <<" ","=","="," ","'">> \o ItsDoubled \o <<"'">>
QuotedWords == fname \o <<" ","=","="," ","'">> \o AAndB \o <<"'">>
QuotedDouble == fname \o <<" ","=","="," ","\"">> \o SayDoubled \o <<"\"">>
QuotedExpressions == {QuotedApostrophe, QuotedWords, QuotedDouble}
QuotedNames == {ItsDoubled, ItsSingle, AAndB, SayDoubled, SaySingle, <<"a">>, <<>>}

EvalInputs ==
    {ExprIn(JoinWords(ws), Some(ws), obj) : ws \in SeqsUpTo(Words, MaxWords), obj \in WordObjs}
      \cup {ExprIn(e, None, obj) : e \in ErrorExamples, obj \in WordObjs}
      \cup {ExprIn(e, None, obj) : e \in {OrAnd, AndOr, ParenOrAnd}, obj \in BoolObjs}
      \cup {ExprIn(JoinWords(<<fz, op, TrimSpace(r)>>), None, obj) :
              op \in {operators[k] : k \in 1..Len(operators)},
              r \in RightLiterals, obj \in MissingObjs}
      \cup {PairIn(l, op, r, obj) :
              l \in Operands, op \in {wAND, wOR}, r \in Operands, obj \in PairObjs}
      \cup {CmpIn(wa, op, r, wa :> left) :
              op \in {operators[k] : k \in 1..Len(operators)},
              r \in OrderLiterals, left \in PresentValues}
      \cup {CmpIn(fz, op, r, obj) :
              op \in {operators[k] : k \in 1..Len(operators)},
              r \in RightLiterals, obj \in MissingObjs}
      \cup {QuotedIn(e, fname :> StrV(n)) : e \in QuotedExpressions, n \in QuotedNames}

InitEval ==
    /\ InitCalls({ZeroTree})
    /\ NoTokenizer
    /\ \E in \in EvalInputs : pure = [fn |-> "", in |-> in, out |-> <<>>]

Called(fn, out) ==
    /\ pure' = [pure EXCEPT !.fn = fn, !.out = out]
    /\ UNCHANGED <<heap, root, pc, arg, result, stack, ret, pre, acc, conc, last, jsonIn>>
    /\ UNCHANGED <<tokVars, order>>

\* result, err := evalExpression(expr, obj)
CallEvalExpression ==
    /\ pure.fn = ""
    /\ pure.in.kind \in {"expr", "pair", "quoted"}
    /\ Called("evalExpression", evalExpression(pure.in.expr, pure.in.obj))

\* result, err := evaluateComparison(left, op, right, obj)
CallEvaluateComparison ==
    /\ pure.fn = ""
    /\ pure.in.kind = "cmp"
    /\ Called("evaluateComparison",
              evaluateComparison(pure.in.left, pure.in.op, pure.in.right, pure.in.obj))

NextEval == CallEvalExpression \/ CallEvaluateComparison

SpecEval == InitEval /\ [][NextEval]_vars

EvalDone == pure.fn = "evalExpression" /\ pure.in.kind = "expr"
PairDone == pure.fn = "evalExpression" /\ pure.in.kind = "pair"
CmpDone == pure.fn = "evaluateComparison"
Truth(name) == pure.in.obj[name].b

\* C16: AND binds tighter than OR and parentheses override that: for every
\* assignment of booleans to a, b and c, "a OR b AND c" is a or (b and c),
\* "a AND b OR c" is (a and b) or c, and "(a OR b) AND c" is (a or b) and c
C16_Precedence ==
    (EvalDone /\ pure.in.expr \in {OrAnd, AndOr, ParenOrAnd}) =>
        /\ pure.out.st = "ok"
        /\ pure.in.expr = OrAnd => (pure.out.val <=> (Truth(wa) \/ (Truth(wb) /\ Truth(wc))))
        /\ pure.in.expr = AndOr => (pure.out.val <=> ((Truth(wa) /\ Truth(wb)) \/ Truth(wc)))
        /\ pure.in.expr = ParenOrAnd =>
             (pure.out.val <=> ((Truth(wa) \/ Truth(wb)) /\ Truth(wc)))

\* scenario 3: "(a OR b) AND c" over {a: true, b: false, c: true} is true
C16_Witness ==
    /\ EvalDone
    /\ pure.in.expr = ParenOrAnd
    /\ Truth(wa) /\ ~Truth(wb) /\ Truth(wc)
    /\ pure.out.st = "ok" /\ pure.out.val

\* C17: evalExpression returns an error for the empty and the blank
\* expression, for an unmatched parenthesis, for an operator lacking an
\* operand and for tokens left over after a complete parse; it returns a
\* boolean only for an expression the grammar derives in full
C17_ErrorsOnMalformed ==
    EvalDone =>
        /\ pure.in.expr \in ErrorExamples => pure.out.st = "err"
        /\ pure.in.words # None =>
             (pure.out.st = "ok" <=> Get(pure.in.words) \in WellFormed)
             /\ (pure.out.st = "err" <=> Get(pure.in.words) \notin WellFormed)

\* "(a AND b))" has a token left over and fails
C17_Witness ==
    /\ EvalDone
    /\ pure.in.expr = wLP \o wa \o spc \o wAND \o spc \o wb \o wRP \o wRP
    /\ pure.out.st = "err"

\* the words "( a ) OR", an OR without its right operand, fail
C17_WitnessWords ==
    /\ EvalDone
    /\ pure.in.words = Some(<<wLP, wa, wRP, wOR>>)
    /\ pure.out.st = "err"

\* C18: a comparison whose left-hand name is not a key of the context never
\* fails and is true exactly when the operator is == and the right-hand
\* literal is null or nil
C18_MissingLeft ==
    (CmpDone /\ TrimSpace(pure.in.left) \notin DOMAIN pure.in.obj) =>
        /\ pure.out.ok
        /\ pure.out.val <=>
             (pure.in.op = wEQ
                /\ TrimSpace(pure.in.right) \in {<<"n","u","l","l">>, <<"n","i","l">>})

\* z != 1 with z missing is false, without an error
C18_Witness ==
    /\ CmpDone
    /\ pure.in.left = fz /\ fz \notin DOMAIN pure.in.obj
    /\ pure.in.op = <<"!","=">> /\ pure.in.right = <<"1">>
    /\ pure.out.ok /\ ~pure.out.val

(***************************************************************************)
(* Validate on string specs with allowEmpty.                               *)
(***************************************************************************)
Allow(b) == [ZeroTree EXCEPT !.AllowEmpty = Some(b)]

\* patterns: one the empty string matches, one it does not match, one that
\* does not compile
PatEmpty == <<"^", "$">>
PatA == <<"a">>
PatBad == <<"[">>

StringTrees ==
    {[TypeSpec("string") EXCEPT !.AllowEmpty = ae, !.MinLength = mn, !.MaxLength = mx,
                                !.Pattern = pt] :
        ae \in {None, Some(TRUE), Some(FALSE)},
        mn \in {None, Some(0), Some(1)},
        mx \in {None, Some(0), Some(-1)},
        pt \in {None, Some(PatEmpty), Some(PatA), Some(PatBad)}}

\* "e == true": then v.allowEmpty true
CondAllow == Cond(<<"e"," ","=","="," ","t","r","u","e">>, Some(fv :> Allow(TRUE)), None)
\* "e": then v.allowEmpty false, else v.allowEmpty true
CondDeny == Cond(<<"e">>, Some(fv :> Allow(FALSE)), Some(fv :> Allow(TRUE)))

\* objects whose field v is a constrained string that conditions on e allow
\* to be empty
AllowTrees ==
    {[ZeroTree EXCEPT
        !.Type = "object",
        !.Properties = Some((fe :> TypeSpec("boolean"))
                            @@ (fv :> [TypeSpec("string") EXCEPT !.MinLength = mn,
                                                                 !.Pattern = pt])),
        !.Conditions = Some(cs)] :
        mn \in {None, Some(1)},
        pt \in {None, Some(PatA), Some(PatBad)},
        cs \in {<<CondAllow>>, <<CondDeny>>, <<CondAllow, CondDeny>>, <<CondDeny, CondAllow>>}}

StringValues ==
    {StrV(<<>>), StrV(<<"a">>), StrV(<<"b", "b">>), NilV, BoolV(TRUE)}
      \cup {MapV((fe :> BoolV(b)) @@ (fv :> StrV(s))) : b \in BOOLEAN, s \in {<<>>, <<"b">>}}

InitString == InitCalls(StringTrees \cup AllowTrees) /\ NoTokenizer /\ pure = NoPure

NextString ==
    \/ \E data \in StringValues : Validate(1, data, root)
    \/ Reorder(1)
    \/ Step(1)
    \/ Return(1)

SpecString == InitString /\ [][NextString]_vars

IsStringConstraintError(e) ==
    e.Message.fmt \in {"string length %d is less than minimum %d",
                       "string length %d is greater than maximum %d",
                       "invalid pattern: %v",
                       "string does not match pattern: %s"}

\* the last validate call of p was made on "" with a string spec whose
\* allowEmpty is true
EmptyAllowed(p) ==
    /\ NodeStep(p)
    /\ LastNode(p).Type = "string"
    /\ LastNode(p).AllowEmpty = Some(TRUE)
    /\ last[p].task.value = StrV(<<>>)

\* C19: a string spec with allowEmpty true accepts "" with no error from
\* minLength, maxLength or pattern, whatever those three are, also when
\* allowEmpty came from a condition override
C19_AllowEmptyAccepts ==
    \A p \in Procs :
        EmptyAllowed(p) =>
            /\ \A k \in 1..Len(Added(p)) : ~IsStringConstraintError(Added(p)[k])
            /\ Added(p) = <<>>
            /\ last[p].out.r.Valid = last[p].r.Valid

\* "" accepted against minLength 1, maxLength -1 and a pattern that does not
\* compile
C19_Witness ==
    /\ EmptyAllowed(1)
    /\ LastNode(1).MinLength = Some(1)
    /\ LastNode(1).MaxLength = Some(-1)
    /\ LastNode(1).Pattern = Some(PatBad)
    /\ Returned(1) /\ result[1].Valid

\* "" accepted at v, whose declared spec has minLength 1, pattern "a" and no
\* allowEmpty: the override of the condition brought it
C19_WitnessOverride ==
    /\ EmptyAllowed(1)
    /\ last[1].task.path = fv
    /\ TreeOf(pre[1], root) # None
    /\ Get(Get(TreeOf(pre[1], root)).Properties)[fv].AllowEmpty = None
    /\ LastNode(1).MinLength = Some(1)
    /\ LastNode(1).Pattern = Some(PatA)
    /\ Returned(1) /\ result[1].Valid

(***************************************************************************)
(* The JavaScript validator (js/src/validator.ts) on the same Spec trees   *)
(* and JSON values.  A JSON number is a float64 value; undefined is None.  *)
(***************************************************************************)
\* typeof value
tsTypeof(v) ==
    IF v.k = "bool" THEN "boolean"
    ELSE IF v.k = "string" THEN "string"
    ELSE IF v.k = "float64" THEN "number"
    ELSE "object"

Abs(n) == IF n < 0 THEN 0 - n ELSE n

\* Number::toString of digits * 10^-e, the digits without a trailing zero
\* when e > 0: the exponent notation below 1e-6
tsDecimalString(digits, e) ==
    IF Len(digits) - e <= -6
    THEN <<Head(digits)>> \o (IF Len(digits) > 1 THEN <<".">> \o Tail(digits) ELSE <<>>)
           \o <<"e", "-">> \o Itoa(e - Len(digits) + 1)
    ELSE IF e = 0 THEN digits
    ELSE IF Len(digits) > e
    THEN SubSeq(digits, 1, Len(digits) - e) \o <<".">>
           \o SubSeq(digits, Len(digits) - e + 1, Len(digits))
    ELSE <<"0", ".">> \o Zeros(e - Len(digits)) \o digits
tsFiniteString(f) ==
    (IF f.n < 0 THEN <<"-">> ELSE <<>>) \o tsDecimalString(Itoa(Abs(f.n)), f.e)
\* String(num)
tsNumberString(f) ==
    IF f = NaN THEN <<"N","a","N">>
    ELSE IF f = PosInf THEN <<"I","n","f","i","n","i","t","y">>
    ELSE IF f = NegInf THEN <<"-","I","n","f","i","n","i","t","y">>
    ELSE tsFiniteString(NormFloat(f.n, f.e))

\* the name that Object.prototype.toString goes by
fToString == <<"t", "o", "S", "t", "r", "i", "n", "g">>

RECURSIVE tsStringThrows(_)
\* ToString(value) throws a TypeError.  An object made by JSON.parse inherits
\* Object.prototype.toString unless an own property "toString" hides it; the
\* own property is no function, and valueOf, inherited or own, gives no
\* primitive, so that nothing converts the object.  An array joins the
\* strings of its elements.
tsStringThrows(v) ==
    IF v.k = "map" THEN fToString \in DOMAIN v.m
    ELSE IF v.k = "slice" THEN \E i \in 1..Len(v.a) : tsStringThrows(v.a[i])
    ELSE FALSE

RECURSIVE tsStringOf(_)
RECURSIVE tsJoin(_)
\* Array.prototype.join(","): null and undefined elements give ""
tsJoin(a) ==
    IF a = <<>> THEN <<>>
    ELSE (IF a[1].k = "nil" THEN <<>> ELSE tsStringOf(a[1]))
           \o (IF Len(a) = 1 THEN <<>> ELSE <<",">> \o tsJoin(Tail(a)))
\* the string of a value that ToString converts
tsStringOf(v) ==
    IF v.k = "string" THEN v.s
    ELSE IF v.k = "bool"
    THEN (IF v.b THEN <<"t","r","u","e">> ELSE <<"f","a","l","s","e">>)
    ELSE IF v.k = "float64" THEN tsNumberString(v)
    ELSE IF v.k = "slice" THEN tsJoin(v.a)
    ELSE IF v.k = "map"
    THEN <<"[","o","b","j","e","c","t"," ","O","b","j","e","c","t","]">>
    ELSE <<"n","u","l","l">>
\* String(value) and `${value}`: [threw, s], threw for the TypeError
tsString(v) ==
    IF tsStringThrows(v) THEN [threw |-> TRUE, s |-> <<>>]
    ELSE [threw |-> FALSE, s |-> tsStringOf(v)]

\* new ValidationResultClass(); threw: an exception left validate
tsNewResult == [valid |-> TRUE, errors |-> <<>>, threw |-> FALSE]

\* addError (lines 29-32)
tsAddError(r, path, message) ==
    IF r.threw THEN r
    ELSE [valid |-> FALSE,
          errors |-> Append(r.errors, [path |-> path, message |-> message]),
          threw |-> FALSE]

tsThrow(r) == [valid |-> r.valid, errors |-> r.errors, threw |-> TRUE]

TypeofArg(v) == TypeArg(tsTypeof(v))

(***************************************************************************)
(* new RegExp(pattern) and RegExp.prototype.test of JavaScript, without    *)
(* flags: the pattern grammar of ECMA-262 with its Annex B, on the UTF-16  *)
(* code units of the pattern and of the text.  Outside the model:          *)
(* lookaround, named groups, modifiers, back references and the legacy     *)
(* octal escapes.                                                          *)
(***************************************************************************)
RECURSIVE Utf16(_)
\* the UTF-16 code units of a sequence of runes
Utf16(runes) ==
    IF runes = <<>> THEN <<>>
    ELSE IF Head(runes) < 65536 THEN <<Head(runes)>> \o Utf16(Tail(runes))
    ELSE <<55296 + ((Head(runes) - 65536) \div 1024),
           56320 + ((Head(runes) - 65536) % 1024)>> \o Utf16(Tail(runes))
\* the code units of a string given by its UTF-8 bytes
Units(s) == Utf16(Runes(s))

\* the parser: the next unit to read is t[i], q says that a quantifier may
\* follow, err that the pattern is a SyntaxError
JsParser(i, stk, q, err) == [i |-> i, stack |-> stk, q |-> q, err |-> err]
jsPush(st, re, i, q) == JsParser(i, Append(st.stack, re), q, FALSE)
jsFail(st) == JsParser(st.i, st.stack, FALSE, TRUE)

jsLiteral(u) == CharClass(<<Item(<<<<u, u>>>>, FALSE, FALSE)>>, FALSE)
\* "." matches all but the line terminators
jsDot == CharClass(<<Item(<<<<10, 10>>, <<13, 13>>, <<8232, 8233>>>>, FALSE, FALSE)>>, TRUE)
\* WhiteSpace and LineTerminator
jsSpaceRanges ==
    <<<<9, 13>>, <<32, 32>>, <<160, 160>>, <<5760, 5760>>, <<8192, 8202>>, <<8232, 8233>>,
      <<8239, 8239>>, <<8287, 8287>>, <<12288, 12288>>, <<65279, 65279>>>>
jsIsSpace(u) == InRanges(jsSpaceRanges, u)
\* CharacterClassEscape
jsClassEscape(u) ==
    IF u = Ord("d") THEN Group(DigitRanges, FALSE)
    ELSE IF u = Ord("D") THEN Group(DigitRanges, TRUE)
    ELSE IF u = Ord("s") THEN Group(jsSpaceRanges, FALSE)
    ELSE IF u = Ord("S") THEN Group(jsSpaceRanges, TRUE)
    ELSE IF u = Ord("w") THEN Group(WordRanges, FALSE)
    ELSE IF u = Ord("W") THEN Group(WordRanges, TRUE)
    ELSE NoGroup
jsIsDigit(u) == u >= 48 /\ u <= 57
jsIsLetter(u) == (u >= 65 /\ u <= 90) \/ (u >= 97 /\ u <= 122)
jsIsHex(u) == jsIsDigit(u) \/ (u >= 65 /\ u <= 70) \/ (u >= 97 /\ u <= 102)
jsHexVal(u) == IF jsIsDigit(u) THEN u - 48 ELSE IF u >= 97 THEN u - 87 ELSE u - 55
jsHexAt(t, i, n) == i + n - 1 <= Len(t) /\ \A k \in i..(i + n - 1) : jsIsHex(t[k])
RECURSIVE jsHexFold(_, _)
jsHexFold(d, v) == IF d = <<>> THEN v ELSE jsHexFold(Tail(d), v * 16 + jsHexVal(Head(d)))
\* ControlEscape
jsControl(u) ==
    IF u = Ord("f") THEN 12 ELSE IF u = Ord("n") THEN 10 ELSE IF u = Ord("r") THEN 13
    ELSE IF u = Ord("t") THEN 9 ELSE 11

\* an escape: a character, a set, an assertion or an error, and the index
\* after it
JsEscape(kind, r, g, i) == [kind |-> kind, r |-> r, g |-> g, i |-> i]
JsChar(r, i) == JsEscape("char", r, NoGroup, i)
\* \c: a control letter, or the backslash by itself
jsControlLetter(t, i, inClass) ==
    IF /\ i + 2 <= Len(t)
       /\ \/ jsIsLetter(t[i + 2])
          \/ (inClass /\ (jsIsDigit(t[i + 2]) \/ t[i + 2] = Ord("_")))
    THEN JsChar(t[i + 2] % 32, i + 3)
    ELSE JsChar(92, i + 1)
\* the escape at t[i] = "\" with the unit c after it
jsEscapeOf(t, i, c, inClass) ==
    IF jsClassEscape(c) # NoGroup THEN JsEscape("set", 0, jsClassEscape(c), i + 2)
    ELSE IF c = Ord("b")
    THEN (IF inClass THEN JsChar(8, i + 2) ELSE JsEscape("wb", 0, NoGroup, i + 2))
    ELSE IF c = Ord("B") /\ ~inClass THEN JsEscape("nwb", 0, NoGroup, i + 2)
    ELSE IF c = Ord("0") /\ ~(i + 2 <= Len(t) /\ jsIsDigit(t[i + 2])) THEN JsChar(0, i + 2)
    ELSE IF jsIsDigit(c) THEN OutsideModel
    ELSE IF c \in {Ord("f"), Ord("n"), Ord("r"), Ord("t"), Ord("v")}
    THEN JsChar(jsControl(c), i + 2)
    ELSE IF c = Ord("c") THEN jsControlLetter(t, i, inClass)
    ELSE IF c = Ord("x") /\ jsHexAt(t, i + 2, 2)
    THEN JsChar(jsHexFold(SubSeq(t, i + 2, i + 3), 0), i + 4)
    ELSE IF c = Ord("u") /\ jsHexAt(t, i + 2, 4)
    THEN JsChar(jsHexFold(SubSeq(t, i + 2, i + 5), 0), i + 6)
    ELSE JsChar(c, i + 2)
jsEscape(t, i, inClass) ==
    IF i + 1 > Len(t) THEN JsEscape("err", 0, NoGroup, i)
    ELSE jsEscapeOf(t, i, t[i + 1], inClass)

\* ClassAtom at t[i]
jsClassAtom(t, i) == IF t[i] = 92 THEN jsEscape(t, i, TRUE) ELSE JsChar(t[i], i + 1)
jsAtomItem(a) ==
    IF a.kind = "set" THEN Item(a.g.ranges, a.g.neg, FALSE)
    ELSE Item(<<<<a.r, a.r>>>>, FALSE, FALSE)

RECURSIVE jsClassLoop(_, _, _)
\* ClassAtom - ClassAtom: a range, or with a set on a side both and "-"
jsClassRange(t, items, a, b) ==
    IF b.kind = "err" THEN Class(0, <<>>, Some(TRUE))
    ELSE IF a.kind = "set" \/ b.kind = "set"
    THEN jsClassLoop(t, b.i, items \o <<jsAtomItem(a), jsAtomItem(JsChar(45, 0)), jsAtomItem(b)>>)
    ELSE IF a.r > b.r THEN Class(0, <<>>, Some(TRUE))
    ELSE jsClassLoop(t, b.i, Append(items, Item(<<<<a.r, b.r>>>>, FALSE, FALSE)))
jsClassNext(t, items, a) ==
    IF a.kind = "err" THEN Class(0, <<>>, Some(TRUE))
    ELSE IF a.i + 1 <= Len(t) /\ t[a.i] = 45 /\ t[a.i + 1] # 93
    THEN jsClassRange(t, items, a, jsClassAtom(t, a.i + 1))
    ELSE jsClassLoop(t, a.i, Append(items, jsAtomItem(a)))
\* ClassContents up to the closing "]"
jsClassLoop(t, i, items) ==
    IF i > Len(t) THEN Class(0, <<>>, Some(TRUE))
    ELSE IF t[i] = 93 THEN Class(i + 1, items, None)
    ELSE jsClassNext(t, items, jsClassAtom(t, i))
jsClassOn(st, neg, cl) ==
    IF cl.err # None THEN jsFail(st) ELSE jsPush(st, CharClass(cl.items, neg), cl.i, TRUE)
\* CharacterClass at t[st.i] = "["
jsClass(t, st) ==
    IF st.i + 1 <= Len(t) /\ t[st.i + 1] = 94
    THEN jsClassOn(st, TRUE, jsClassLoop(t, st.i + 2, <<>>))
    ELSE jsClassOn(st, FALSE, jsClassLoop(t, st.i + 1, <<>>))

\* a quantifier on the atom at the top of the stack, after over a "?"
jsQuantify(t, st, op, min, max, after) ==
    IF ~st.q \/ (max >= 0 /\ min > max) THEN jsFail(st)
    ELSE JsParser(IF after <= Len(t) /\ t[after] = 63 THEN after + 1 ELSE after,
                  Append(SubSeq(st.stack, 1, Len(st.stack) - 1),
                         Repetition(op, st.stack[Len(st.stack)], min, max)),
                  FALSE, FALSE)

RECURSIVE jsDigitsEnd(_, _)
jsDigitsEnd(t, i) == IF i <= Len(t) /\ jsIsDigit(t[i]) THEN jsDigitsEnd(t, i + 1) ELSE i
RECURSIVE jsDigitsVal(_, _)
jsDigitsVal(d, n) == IF d = <<>> THEN n ELSE jsDigitsVal(Tail(d), n * 10 + (Head(d) - 48))
\* the number of the digits t[i..j-1], of nine digits at most
jsCount(t, i, j) == IF j - i > 9 THEN OutsideModel ELSE jsDigitsVal(SubSeq(t, i, j - 1), 0)
\* {n}, {n,} and {n,m} at t[i] = "{": [ok, min, max, after]
jsBraceMax(t, i, j, k) ==
    IF k > Len(t) THEN NoRepeat
    ELSE IF t[k] = 125
    THEN [ok |-> TRUE, min |-> jsCount(t, i + 1, j), max |-> -1, after |-> k + 1]
    ELSE IF jsDigitsEnd(t, k) = k \/ jsDigitsEnd(t, k) > Len(t) \/ t[jsDigitsEnd(t, k)] # 125
    THEN NoRepeat
    ELSE [ok |-> TRUE, min |-> jsCount(t, i + 1, j), max |-> jsCount(t, k, jsDigitsEnd(t, k)),
          after |-> jsDigitsEnd(t, k) + 1]
jsBraceMin(t, i, j) ==
    IF j = i + 1 \/ j > Len(t) THEN NoRepeat
    ELSE IF t[j] = 125
    THEN [ok |-> TRUE, min |-> jsCount(t, i + 1, j), max |-> jsCount(t, i + 1, j),
          after |-> j + 1]
    ELSE IF t[j] = 44 THEN jsBraceMax(t, i, j, j + 1)
    ELSE NoRepeat
jsBraces(t, i) == jsBraceMin(t, i, jsDigitsEnd(t, i + 1))
\* "{": a quantifier, or else the character
jsBraceOn(t, st, b) ==
    IF ~b.ok THEN jsPush(st, jsLiteral(123), st.i + 1, TRUE)
    ELSE jsQuantify(t, st, "repeat", b.min, b.max, b.after)

\* ")" on the stack after closeAlternation
jsRightParen(st, stk) ==
    IF Len(stk) < 2 \/ stk[Len(stk) - 1].op # "(" THEN jsFail(st)
    ELSE JsParser(st.i + 1, Append(SubSeq(stk, 1, Len(stk) - 2), stk[Len(stk)]),
                  TRUE, FALSE)
\* "(": a group, capturing or not
jsLeftParen(t, st) ==
    IF ~(st.i + 1 <= Len(t) /\ t[st.i + 1] = 63)
    THEN jsPush(st, LeftParen(PerlFlags), st.i + 1, FALSE)
    ELSE IF st.i + 2 > Len(t) THEN jsFail(st)
    ELSE IF t[st.i + 2] = 58 THEN jsPush(st, LeftParen(PerlFlags), st.i + 3, FALSE)
    ELSE IF t[st.i + 2] \in {Ord("="), Ord("!"), Ord("<"), Ord("i"), Ord("m"), Ord("s"), Ord("-")}
    THEN OutsideModel
    ELSE jsFail(st)
\* "\": an assertion or an atom
jsBackslash(st, e) ==
    IF e.kind = "err" THEN jsFail(st)
    ELSE IF e.kind \in {"wb", "nwb"} THEN jsPush(st, EmptyWidth(e.kind), e.i, FALSE)
    ELSE jsPush(st, CharClass(<<jsAtomItem(e)>>, FALSE), e.i, TRUE)

\* a Term at the unit u = t[st.i]
jsToken(t, st, u) ==
    IF u = Ord("(") THEN jsLeftParen(t, st)
    ELSE IF u = Ord("|") THEN JsParser(st.i + 1, parseVerticalBar(st.stack), FALSE, FALSE)
    ELSE IF u = Ord(")") THEN jsRightParen(st, closeAlternation(st.stack))
    ELSE IF u = Ord("^") THEN jsPush(st, EmptyWidth("bot"), st.i + 1, FALSE)
    ELSE IF u = Ord("$") THEN jsPush(st, EmptyWidth("eot"), st.i + 1, FALSE)
    ELSE IF u = Ord(".") THEN jsPush(st, jsDot, st.i + 1, TRUE)
    ELSE IF u = Ord("[") THEN jsClass(t, st)
    ELSE IF u = Ord("*") THEN jsQuantify(t, st, "star", 0, -1, st.i + 1)
    ELSE IF u = Ord("+") THEN jsQuantify(t, st, "plus", 1, -1, st.i + 1)
    ELSE IF u = Ord("?") THEN jsQuantify(t, st, "quest", 0, 1, st.i + 1)
    ELSE IF u = Ord("{") THEN jsBraceOn(t, st, jsBraces(t, st.i))
    ELSE IF u = 92 THEN jsBackslash(st, jsEscape(t, st.i, FALSE))
    ELSE jsPush(st, jsLiteral(u), st.i + 1, TRUE)

RECURSIVE jsTokens(_, _)
jsTokens(t, st) ==
    IF st.err \/ st.i > Len(t) THEN st ELSE jsTokens(t, jsToken(t, st, t[st.i]))

\* the pattern parsed: [err, re], err for a SyntaxError
jsEnd(stk) ==
    IF Len(stk) # 1 THEN [err |-> TRUE, re |-> EmptyMatch]
    ELSE [err |-> FALSE, re |-> stk[1]]
jsDone(st) ==
    IF st.err THEN [err |-> TRUE, re |-> EmptyMatch] ELSE jsEnd(closeAlternation(st.stack))
jsParse(t) ==
    IF Len(t) >= MaxPattern THEN OutsideModel
    ELSE jsDone(jsTokens(t, JsParser(1, <<>>, FALSE, FALSE)))

\* new RegExp(pattern) throws
tsCompileFails(re) == jsParse(Units(re)).err
\* new RegExp(pattern).test(str)
tsTest(re, str) == Matches(jsParse(Units(re)).re, Units(str))


(***************************************************************************)
(* parseFloat: the longest prefix of the trimmed string that is a          *)
(* StrDecimalLiteral, on UTF-16 code units.  None is NaN.                  *)
(***************************************************************************)
RECURSIVE jsTrimStart(_)
\* the string without its leading WhiteSpace and LineTerminator units
jsTrimStart(t) == IF t # <<>> /\ jsIsSpace(Head(t)) THEN jsTrimStart(Tail(t)) ELSE t
StrInfinity == <<73, 110, 102, 105, 110, 105, 116, 121>>
jsHasPrefixAt(t, i, pat) ==
    i + Len(pat) - 1 <= Len(t) /\ SubSeq(t, i, i + Len(pat) - 1) = pat
jsIsSign(t, i) == i <= Len(t) /\ t[i] \in {43, 45}
\* the ExponentPart at t[i], 0 when there is none: e or E, a sign, digits
strExponentAt(t, j, neg) ==
    IF jsDigitsEnd(t, j) = j THEN 0
    ELSE (IF neg THEN -1 ELSE 1) * jsDigitsVal(SubSeq(t, j, jsDigitsEnd(t, j) - 1), 0)
strExponent(t, i) ==
    IF i > Len(t) \/ t[i] \notin {101, 69} THEN 0
    ELSE IF jsIsSign(t, i + 1) THEN strExponentAt(t, i + 2, t[i + 1] = 45)
    ELSE strExponentAt(t, i + 1, FALSE)
\* the digits of a run of digit units
jsDigitChars(d) == [k \in 1..Len(d) |-> Digits[d[k] - 47]]
\* the float64 of the digits d with frac of them after the point, times
\* 10^exp, rounded as StringToNumber rounds
strValue(d, frac, exp, sign) ==
    IF SkipZeros(jsDigitChars(d)) = <<>> THEN FloatV(0, 0)
    ELSE IF sign < 0
    THEN Negate(roundDecimal(TrimZeros(SkipZeros(jsDigitChars(d))),
                             Len(SkipZeros(jsDigitChars(d))) - 1 + exp - frac))
    ELSE roundDecimal(TrimZeros(SkipZeros(jsDigitChars(d))),
                      Len(SkipZeros(jsDigitChars(d))) - 1 + exp - frac)
\* the digits before and after the point, the exponent read at t[after]
strNumber(t, ints, fracs, after, sign) ==
    IF ints = <<>> /\ fracs = <<>> THEN None
    ELSE Some(strValue(ints \o fracs, Len(fracs), strExponent(t, after), sign))
\* StrUnsignedDecimalLiteral at t[i], d1 the end of its first digits
strDecimal(t, i, d1, sign) ==
    IF d1 <= Len(t) /\ t[d1] = 46
    THEN strNumber(t, SubSeq(t, i, d1 - 1),
                   SubSeq(t, d1 + 1, jsDigitsEnd(t, d1 + 1) - 1),
                   jsDigitsEnd(t, d1 + 1), sign)
    ELSE strNumber(t, SubSeq(t, i, d1 - 1), <<>>, d1, sign)
strUnsigned(t, i, sign) ==
    IF jsHasPrefixAt(t, i, StrInfinity) THEN Some(IF sign < 0 THEN NegInf ELSE PosInf)
    ELSE strDecimal(t, i, jsDigitsEnd(t, i), sign)
\* the number of the longest prefix of t that is a StrDecimalLiteral
ParsePrefix(t) ==
    IF jsIsSign(t, 1) THEN strUnsigned(t, 2, IF t[1] = 45 THEN -1 ELSE 1)
    ELSE strUnsigned(t, 1, 1)
\* parseFloat(value): ToString, which may throw, then the trimmed string's
\* prefix: [threw, num], num None for NaN
parseFloat(v) ==
    IF tsString(v).threw THEN [threw |-> TRUE, num |-> None]
    ELSE [threw |-> FALSE, num |-> ParsePrefix(jsTrimStart(Units(tsString(v).s)))]

\* typeof value === 'number' ? value : parseFloat(value)  (lines 123, 139)
tsNumber(v) ==
    IF v.k = "float64" THEN [threw |-> FALSE, num |-> IF v = NaN THEN None ELSE Some(v)]
    ELSE parseFloat(v)

\* str.length: the number of UTF-16 code units
tsLength(s) == Len(Units(s))

\* validateString, the pattern check (lines 112-117)
tsCheckPattern(r, path, str, spec) ==
    IF spec.Pattern = None \/ Get(spec.Pattern) = <<>> THEN r
    ELSE IF tsCompileFails(Get(spec.Pattern)) THEN tsThrow(r)
    ELSE IF ~tsTest(Get(spec.Pattern), str)
    THEN tsAddError(r, path, Msg("string does not match pattern: ${spec.pattern}",
                                 <<StrV(Get(spec.Pattern))>>))
    ELSE r
\* the minLength and maxLength checks (lines 98-110, 222-234)
tsCheckMinLength(r, path, n, spec, fmt) ==
    IF spec.MinLength # None /\ n < Get(spec.MinLength)
    THEN tsAddError(r, path, Msg(fmt, <<IntV(n), IntV(Get(spec.MinLength))>>))
    ELSE r
tsCheckMaxLength(r, path, n, spec, fmt) ==
    IF spec.MaxLength # None /\ n > Get(spec.MaxLength)
    THEN tsAddError(r, path, Msg(fmt, <<IntV(n), IntV(Get(spec.MaxLength))>>))
    ELSE r

\* validateString (lines 86-120)
tsValidateString(r, path, value, spec) ==
    IF value.k # "string"
    THEN tsAddError(r, path, Msg("expected string, got ${typeof value}", <<TypeofArg(value)>>))
    ELSE IF spec.AllowEmpty = Some(TRUE) /\ value.s = <<>> THEN r
    ELSE tsCheckPattern(
             tsCheckMaxLength(
                 tsCheckMinLength(r, path, tsLength(value.s), spec,
                     "string length ${str.length} is less than minimum ${spec.minLength}"),
                 path, tsLength(value.s), spec,
                 "string length ${str.length} is greater than maximum ${spec.maxLength}"),
             path, value.s, spec)

\* the min and max checks (lines 129-135, 151-157)
tsCheckMin(r, path, num, spec, fmt) ==
    IF spec.Min # None /\ FloatLess(num, Get(spec.Min))
    THEN tsAddError(r, path, Msg(fmt, <<num, Get(spec.Min)>>))
    ELSE r
tsCheckMax(r, path, num, spec, fmt) ==
    IF spec.Max # None /\ FloatLess(Get(spec.Max), num)
    THEN tsAddError(r, path, Msg(fmt, <<num, Get(spec.Max)>>))
    ELSE r

\* validateNumber (lines 122-136) with num the outcome of line 123
tsNumberChecks(r, path, value, spec, num) ==
    IF num.threw THEN tsThrow(r)
    ELSE IF num.num = None
    THEN tsAddError(r, path, Msg("expected number, got ${typeof value}", <<TypeofArg(value)>>))
    ELSE tsCheckMax(tsCheckMin(r, path, Get(num.num), spec,
                               "number ${num} is less than minimum ${spec.min}"),
                    path, Get(num.num), spec,
                    "number ${num} is greater than maximum ${spec.max}")
tsValidateNumber(r, path, value, spec) ==
    tsNumberChecks(r, path, value, spec, tsNumber(value))

\* num !== Math.floor(num)
IsWhole(f) == ~IsFinite(f) \/ NormFloat(f.n, f.e).e = 0

\* validateInteger (lines 138-158)
tsIntegerChecks(r, path, value, spec, num) ==
    IF num.threw THEN tsThrow(r)
    ELSE IF num.num = None
    THEN tsAddError(r, path, Msg("expected integer, got ${typeof value}", <<TypeofArg(value)>>))
    ELSE IF ~IsWhole(Get(num.num))
    THEN tsAddError(r, path, Msg("expected integer, got float: ${num}", <<Get(num.num)>>))
    ELSE tsCheckMax(tsCheckMin(r, path, Get(num.num), spec,
                               "integer ${num} is less than minimum ${spec.min}"),
                    path, Get(num.num), spec,
                    "integer ${num} is greater than maximum ${spec.max}")
tsValidateInteger(r, path, value, spec) ==
    tsIntegerChecks(r, path, value, spec, tsNumber(value))

\* validateBoolean (lines 160-164)
tsValidateBoolean(r, path, value) ==
    IF value.k # "bool"
    THEN tsAddError(r, path, Msg("expected boolean, got ${typeof value}", <<TypeofArg(value)>>))
    ELSE r

\* Object.keys of an array or an object
tsKeys(v) == IF v.k = "slice" THEN {Itoa(i - 1) : i \in 1..Len(v.a)} ELSE DOMAIN v.m
tsAt(v, key) ==
    IF v.k = "slice" THEN v.a[CHOOSE i \in 1..Len(v.a) : Itoa(i - 1) = key] ELSE v.m[key]

RECURSIVE tsDeepEqual(_, _)
\* deepEqual (lines 342-369); two parsed objects are never the same object
tsDeepEqual(a, b) ==
    IF a.k = "nil" /\ b.k = "nil" THEN TRUE
    ELSE IF a.k = "nil" \/ b.k = "nil" THEN FALSE
    ELSE IF a.k = "float64" /\ b.k = "float64" /\ FloatEq(a, b) THEN TRUE
    ELSE IF a.k \in {"string", "bool"} /\ a = b THEN TRUE
    ELSE IF tsTypeof(a) # tsTypeof(b) THEN FALSE
    ELSE IF tsTypeof(a) = "object"
    THEN /\ Cardinality(tsKeys(a)) = Cardinality(tsKeys(b))
         /\ \A key \in tsKeys(a) :
               key \in tsKeys(b) /\ tsDeepEqual(tsAt(a, key), tsAt(b, key))
    ELSE FALSE

\* validateEnum (lines 243-256): when no member equals the value, String of
\* every member and then of the value, each of which may throw
tsValidateEnum(r, path, value, enumValues) ==
    IF \E k \in 1..Len(enumValues) : tsDeepEqual(value, enumValues[k])
    THEN r
    ELSE IF \/ \E k \in 1..Len(enumValues) : tsString(enumValues[k]).threw
            \/ tsString(value).threw
    THEN tsThrow(r)
    ELSE tsAddError(r, path,
             Msg("value not in enum: ${value} (allowed: ${enumStrs.join(', ')})",
                 <<value, SliceV(enumValues)>>))

\* buildPath (lines 258-266), buildArrayPath (lines 268-270)
tsBuildPath(base, field) ==
    IF base = <<>> THEN field
    ELSE IF field = <<>> THEN base
    ELSE base \o <<".">> \o field
tsBuildArrayPath(base, index) == base \o <<"[">> \o Itoa(index) \o <<"]">>

\* the property names of Object.prototype, which every object made by
\* JSON.parse or by an object literal inherits
ObjectPrototypeNames ==
    {<<"c","o","n","s","t","r","u","c","t","o","r">>,
     <<"_","_","d","e","f","i","n","e","G","e","t","t","e","r","_","_">>,
     <<"_","_","d","e","f","i","n","e","S","e","t","t","e","r","_","_">>,
     <<"h","a","s","O","w","n","P","r","o","p","e","r","t","y">>,
     <<"_","_","l","o","o","k","u","p","G","e","t","t","e","r","_","_">>,
     <<"_","_","l","o","o","k","u","p","S","e","t","t","e","r","_","_">>,
     <<"i","s","P","r","o","t","o","t","y","p","e","O","f">>,
     <<"p","r","o","p","e","r","t","y","I","s","E","n","u","m","e","r","a","b","l","e">>,
     <<"t","o","S","t","r","i","n","g">>,
     <<"v","a","l","u","e","O","f">>,
     <<"_","_","p","r","o","t","o","_","_">>,
     <<"t","o","L","o","c","a","l","e","S","t","r","i","n","g">>}
\* key in obj: own or inherited
tsIn(key, obj) == key \in DOMAIN obj \/ key \in ObjectPrototypeNames

RECURSIVE tsRequired(_, _, _, _)
\* for (const req of spec.required) { ... } (lines 176-182)
tsRequired(r, path, obj, reqs) ==
    IF reqs = <<>> THEN r
    ELSE tsRequired(IF tsIn(Head(reqs), obj) THEN r
                    ELSE tsAddError(r, tsBuildPath(path, Head(reqs)),
                                    Msg("required field is missing", <<>>)),
                    path, obj, Tail(reqs))

RECURSIVE tsValidate(_, _, _, _)
RECURSIVE tsProperties(_, _, _, _)
RECURSIVE tsItems(_, _, _, _, _)

\* the body of the loop for one entry (lines 190-201).  effectiveSpecs is
\* the empty object that buildEffectiveSpecs returns (lines 272-287), so
\* effectiveSpecs[key] is undefined unless key names a property of
\* Object.prototype; then it is that function or object, which has no
\* `type`, key is in obj, and validate returns at once (lines 41-43)
tsProperty(r, path, obj, key, propSpec) ==
    IF key \in ObjectPrototypeNames THEN r
    ELSE IF key \in DOMAIN obj
    THEN tsValidate(r, tsBuildPath(path, key), obj[key], Some(propSpec))
    ELSE r
\* for (const [key, propSpec] of Object.entries(spec.properties)) (line 189)
tsProperties(r, path, obj, entries) ==
    IF entries = <<>> THEN r
    ELSE tsProperties(tsProperty(r, path, obj, Head(entries).key, Head(entries).spec),
                      path, obj, Tail(entries))

\* validateObject (lines 166-212)
tsValidateObject(r, path, value, spec) ==
    IF value.k # "map"
    THEN tsAddError(r, path, Msg("expected object, got ${typeof value}", <<TypeofArg(value)>>))
    ELSE IF spec.Properties = None
    THEN tsRequired(r, path, value.m, IF spec.Required = None THEN <<>> ELSE Get(spec.Required))
    ELSE tsProperties(
             tsRequired(r, path, value.m,
                        IF spec.Required = None THEN <<>> ELSE Get(spec.Required)),
             path, value.m, Get(spec.Properties))

\* for (let i = 0; i < arr.length; i++) (lines 237-239)
tsItems(r, path, arr, items, i) ==
    IF i >= Len(arr) THEN r
    ELSE tsItems(tsValidate(r, tsBuildArrayPath(path, i), arr[i + 1], items),
                 path, arr, items, i + 1)

\* validateArray (lines 214-241)
tsValidateArray(r, path, value, spec) ==
    IF value.k # "slice"
    THEN tsAddError(r, path, Msg("expected array, got ${typeof value}", <<TypeofArg(value)>>))
    ELSE IF spec.Items = None
    THEN tsCheckMaxLength(
             tsCheckMinLength(r, path, Len(value.a), spec,
                 "array length ${arr.length} is less than minimum ${spec.minLength}"),
             path, Len(value.a), spec,
             "array length ${arr.length} is greater than maximum ${spec.maxLength}")
    ELSE tsItems(
             tsCheckMaxLength(
                 tsCheckMinLength(r, path, Len(value.a), spec,
                     "array length ${arr.length} is less than minimum ${spec.minLength}"),
                 path, Len(value.a), spec,
                 "array length ${arr.length} is greater than maximum ${spec.maxLength}"),
             path, value.a, spec.Items, 0)

\* the switch of validate (lines 52-78)
tsSwitch(r, path, value, spec) ==
    IF spec.Type = "string" THEN tsValidateString(r, path, value, spec)
    ELSE IF spec.Type = "number" THEN tsValidateNumber(r, path, value, spec)
    ELSE IF spec.Type = "integer" THEN tsValidateInteger(r, path, value, spec)
    ELSE IF spec.Type = "boolean" THEN tsValidateBoolean(r, path, value)
    ELSE IF spec.Type = "object" THEN tsValidateObject(r, path, value, spec)
    ELSE IF spec.Type = "array" THEN tsValidateArray(r, path, value, spec)
    ELSE IF spec.Type = "null"
    THEN tsAddError(r, path, Msg("expected null, got non-null value", <<>>))
    ELSE tsAddError(r, path, Msg("unknown type: ${spec.type}", <<TypeArg(spec.Type)>>))

\* the enum check of validate (lines 80-83)
tsEnum(r, path, value, spec) ==
    IF spec.Enum # None /\ Len(Get(spec.Enum)) > 0
    THEN tsValidateEnum(r, path, value, Get(spec.Enum))
    ELSE r

\* ValidationResultClass.validate (lines 34-84) on spec, an option
tsValidate(r, path, value, spec) ==
    IF r.threw THEN r
    ELSE IF spec = None THEN tsAddError(r, path, Msg("spec is nil", <<>>))
    ELSE IF Get(spec).Type = "" THEN r
    ELSE IF value.k = "nil"
    THEN (IF Get(spec).Type # "null"
          THEN tsAddError(r, path, Msg("expected type ${spec.type}, got null",
                                       <<TypeArg(Get(spec).Type)>>))
          ELSE r)
    ELSE tsEnum(tsSwitch(r, path, value, Get(spec)), path, value, Get(spec))

\* export function validate (lines 470-501), no endpoint given
tsValidateExport(value, spec) == tsValidate(tsNewResult, <<>>, value, spec)

(***************************************************************************)
(* The spec as the JavaScript side holds it: an object keeps its keys in   *)
(* the order of OrdinaryOwnPropertyKeys, the array indices in ascending    *)
(* order and then the other names in the order they were written, and      *)
(* Object.entries(spec.properties) follows it.  The Spec trees do not say  *)
(* in which order the names were written: it is the code-th order.         *)
(***************************************************************************)
\* an array index: a canonical numeric string below 2^32 - 1
MaxIndex == <<"4","2","9","4","9","6","7","2","9","4">>
IndexLess(a, b) == Len(a) < Len(b) \/ (Len(a) = Len(b) /\ DigitsLess(a, b))
IsArrayIndex(key) ==
    /\ key # <<>>
    /\ \A k \in 1..Len(key) : IsDigit(key[k])
    /\ (Len(key) = 1 \/ Head(key) # "0")
    /\ (IndexLess(key, MaxIndex) \/ key = MaxIndex)
RECURSIVE Ascending(_)
\* the array indices of a set in ascending order
Ascending(keys) ==
    IF keys = {} THEN <<>>
    ELSE <<CHOOSE a \in keys : \A b \in keys \ {a} : IndexLess(a, b)>>
         \o Ascending(keys \ {CHOOSE a \in keys : \A b \in keys \ {a} : IndexLess(a, b)})
\* the own keys of an object whose names were written in the code-th order
OwnPropertyKeys(m, code) ==
    Ascending({key \in DOMAIN m : IsArrayIndex(key)})
      \o InOrder(SetToSeq({key \in DOMAIN m : ~IsArrayIndex(key)}), code)

\* the names of an object that are no array index
WrittenNames(m) == {key \in DOMAIN m : ~IsArrayIndex(key)}

RECURSIVE OrderCount(_)
RECURSIVE ChildrenCount(_, _)
\* the number of ways in which the Spec objects m[key], key in keys, can
\* have been written
ChildrenCount(m, keys) ==
    IF keys = <<>> THEN 1
    ELSE OrderCount(m[Head(keys)]) * ChildrenCount(m, Tail(keys))
\* the number of ways in which spec.properties can have been written: the
\* orders of its own names, and for each of them those of every property
PropertiesCount(t) ==
    IF t.Properties = None THEN 1
    ELSE Factorial(Cardinality(WrittenNames(Get(t.Properties))))
           * ChildrenCount(Get(t.Properties), RangeKeys(Get(t.Properties)))
\* the number of ways in which the Spec object of a tree can have been
\* written: every properties object in it has an order of its own
OrderCount(t) ==
    PropertiesCount(t) * (IF t.Items = None THEN 1 ELSE OrderCount(Get(t.Items)))

\* the keys that come before key in the sequence keys
KeysBefore(keys, key) ==
    SubSeq(keys, 1, (CHOOSE k \in 1..Len(keys) : keys[k] = key) - 1)
\* A code below OrderCount(t) names one way of writing t: its digits, the
\* least first, are the order of the names of spec.properties, the ways of
\* writing each property, and the way of writing spec.items.
NamesCode(t, code) ==
    (code % PropertiesCount(t)) % Factorial(Cardinality(WrittenNames(Get(t.Properties))))
ChildCode(t, key, code) ==
    (((code % PropertiesCount(t))
        \div Factorial(Cardinality(WrittenNames(Get(t.Properties)))))
        \div ChildrenCount(Get(t.Properties),
                           KeysBefore(RangeKeys(Get(t.Properties)), key)))
      % OrderCount(Get(t.Properties)[key])
ItemsCode(t, code) == code \div PropertiesCount(t)

RECURSIVE JsSpec(_, _)
RECURSIVE JsEntries(_, _, _)
\* Object.entries of the properties object of t, keys its own keys in order
JsEntries(t, keys, code) ==
    IF keys = <<>> THEN <<>>
    ELSE <<[key |-> Head(keys),
            spec |-> JsSpec(Get(t.Properties)[Head(keys)], ChildCode(t, Head(keys), code))]>>
         \o JsEntries(t, Tail(keys), code)
\* the Spec object of a tree, written in the code-th way
JsSpec(t, code) ==
    [t EXCEPT
       !.Properties = IF t.Properties = None THEN None
                      ELSE Some(JsEntries(t, OwnPropertyKeys(Get(t.Properties),
                                                             NamesCode(t, code)), code)),
       !.Items = IF t.Items = None THEN None
                 ELSE Some(JsSpec(Get(t.Items), ItemsCode(t, code)))]

\* the ways in which the Spec object of the tree can have been written
WrittenOrders(t) == 0..(OrderCount(t) - 1)


(***************************************************************************)
(* One spec without Conditions and one JSON value, validated by Go's       *)
(* Validate and then by the JavaScript validate.                           *)
(***************************************************************************)
five == FloatV(5, 0)
Bounded(t) == [TypeSpec(t) EXCEPT !.Min = Some(FloatV(1, 0)), !.Max = Some(FloatV(10, 0))]

PlainTrees ==
    {TypeSpec(t) : t \in {"", "string", "number", "integer", "boolean", "null", "object",
                          "array", "strnig"}}
      \cup {Bounded("number"), Bounded("integer"), MinLen(1),
            [TypeSpec("integer") EXCEPT !.Enum = Some(<<five>>)],
            [TypeSpec("string") EXCEPT !.MinLength = Some(1), !.Pattern = Some(PatA)],
            [TypeSpec("string") EXCEPT !.Pattern = Some(PatBad)],
            [TypeSpec("string") EXCEPT !.MinLength = Some(1), !.AllowEmpty = Some(TRUE)],
            [TypeSpec("array") EXCEPT !.Items = Some(Bounded("number")),
                                      !.MinLength = Some(1)],
            [TypeSpec("object") EXCEPT !.Properties = Some(fv :> Bounded("integer")),
                                       !.Required = Some(<<fv, fz>>)],
            [TypeSpec("object") EXCEPT
               !.Properties = Some((fv :> Bounded("integer"))
                                     @@ (fx :> [TypeSpec("string") EXCEPT
                                                  !.Pattern = Some(PatBad)]))],
            [TypeSpec("object") EXCEPT !.Properties = Some(fToString :> TypeSpec("string")),
                                       !.Required = Some(<<fToString>>)],
            [TypeSpec("object") EXCEPT
               !.Properties = Some((fo :> [TypeSpec("object") EXCEPT
                                            !.Properties = Some((fx :> TypeSpec("string"))
                                                                  @@ (fv :> TypeSpec("string")))])
                                     @@ (fz :> TypeSpec("string")))]}

JSONValues ==
    {NilV, BoolV(TRUE), five, FloatV(15, 1), FloatV(20, 0),
     StrV(<<>>), StrV(<<"5">>), StrV(<<"1", ".", "5">>), StrV(<<" ", "5", "x">>),
     StrV(<<"x">>), StrV(<<"a">>),
     SliceV(<<>>), SliceV(<<five>>), SliceV(<<StrV(<<"5">>), FloatV(20, 0)>>),
     MapV(<<>>), MapV(fv :> five), MapV(fv :> StrV(<<"5">>)),
     MapV((fv :> FloatV(20, 0)) @@ (fx :> StrV(<<"a">>))), MapV(fToString :> five),
     MapV((fo :> MapV((fx :> five) @@ (fv :> five))) @@ (fz :> five)),
     SliceV(<<five, MapV(fToString :> five)>>)}

InitAgree == InitCalls(PlainTrees) /\ NoTokenizer /\ pure = NoPure

\* const result = validate(value, spec), on the value and the spec that Go's
\* Validate was given, the names of the spec written in some order
ValidateJS(value, tree, code) ==
    pure' = [fn |-> "validate",
             in |-> [value |-> value, spec |-> Some(tree), written |-> code],
             out |-> tsValidateExport(value, Some(JsSpec(tree, code)))]
CallValidateJS ==
    /\ pc[1] = "done"
    /\ pure.fn = ""
    /\ \E code \in WrittenOrders(Get(TreeOf(pre[1], arg[1].spec))) :
          ValidateJS(arg[1].data, Get(TreeOf(pre[1], arg[1].spec)), code)
    /\ UNCHANGED <<heap, root, pc, arg, result, stack, ret, pre, acc, conc, last, jsonIn>>
    /\ UNCHANGED <<tokVars, order>>

NextAgree ==
    \/ \E data \in JSONValues : Validate(1, data, root)
    \/ Reorder(1)
    \/ Step(1)
    \/ Return(1)
    \/ CallValidateJS

SpecAgree == InitAgree /\ [][NextAgree]_vars

RECURSIVE HasConditions(_)
\* a Conditions list somewhere in the tree
HasConditions(t) ==
    \/ t.Conditions # None
    \/ (t.Items # None /\ HasConditions(Get(t.Items)))
    \/ (t.Properties # None
          /\ \E k \in DOMAIN Get(t.Properties) : HasConditions(Get(t.Properties)[k]))

GoPaths == {result[1].Errors[k].Path : k \in 1..Len(result[1].Errors)}
JsPaths == {pure.out.errors[k].path : k \in 1..Len(pure.out.errors)}
BothReturned == Returned(1) /\ pure.fn = "validate"

\* C20: for a spec without Conditions and a JSON value, Go's Validate and the
\* JavaScript validate return the same verdict and errors at the same paths
C20_GoAndJsAgree ==
    (BothReturned /\ ~HasConditions(Get(pure.in.spec))) =>
        /\ ~pure.out.threw
        /\ result[1].Valid = pure.out.valid
        /\ GoPaths = JsPaths

\* the same, for a string value against type number or integer
C20_GoAndJsAgreeOnStrings ==
    (/\ BothReturned
     /\ Get(pure.in.spec).Type \in {"number", "integer"}
     /\ pure.in.value.k = "string") =>
        /\ result[1].Valid = pure.out.valid
        /\ GoPaths = JsPaths

\* the same, for a spec with no type
C20_GoAndJsAgreeWithoutType ==
    (BothReturned /\ Get(pure.in.spec).Type = "") =>
        /\ result[1].Valid = pure.out.valid
        /\ GoPaths = JsPaths

(***************************************************************************)
(* Two Validate calls on one Spec object, the second after the first has   *)
(* returned.                                                               *)
(***************************************************************************)
\* an object spec, and an array of such objects
SeqObjectTrees ==
    {ObjectTree(Some(cs), None) :
        cs \in {<<CondNested>>, <<CondThen>>, <<CondElse, CondNested>>}}
SeqTrees ==
    SeqObjectTrees \cup {[TypeSpec("array") EXCEPT !.Items = Some(t)] : t \in SeqObjectTrees}

\* objects with e and one of the fields that the conditions override
SeqObjects ==
    {MapV((fe :> BoolV(b)) @@ f) :
        b \in BOOLEAN, f \in {fv :> StrV(<<>>), fo :> MapV(fx :> StrV(<<>>))}}
SeqValues ==
    SeqObjects \cup {SliceV(<<a, b>>) : a \in SeqObjects, b \in SeqObjects}

InitSeq == InitCalls(SeqTrees) /\ NoTokenizer /\ pure = NoPure

NextSeq ==
    \/ \E data \in SeqValues : Validate(1, data, root)
    \/ Reorder(1)
    \/ Step(1)
    \/ Return(1)
    \/ \E data \in SeqValues : pc[1] = "done" /\ Validate(2, data, root)
    \/ Reorder(2)
    \/ Step(2)
    \/ Return(2)

SpecSeq == InitSeq /\ [][NextSeq]_vars

\* C21: the result of Validate(v, S) is the same whether or not another
\* Validate call on S was made before it: the second call returns what a call
\* on S as the caller built it returns, up to the order of the errors
C21_ResultIndependentOfHistory ==
    (Returned(1) /\ Returned(2)) =>
        ReturnsSame(result[2], ValidateOn(pre[1], arg[2].data, arg[2].spec))

\* the errors of validating element i (from 0) of the array of call p alone,
\* at its path, against Items as the caller built it
ElementAlone(p, i) == AloneErrors(p, i)

\* C21, within one call: the errors at an array element are those of that
\* element validated alone against Items, whatever the elements before it
C21_ElementIndependentOfEarlier ==
    (/\ Returned(1) /\ pc[2] = "idle"
     /\ arg[1].data.k = "slice"
     /\ pre[1].specs[arg[1].spec].Type = "array") =>
        \A i \in 0..(Len(arg[1].data.a) - 1) :
            ErrorBag(ErrorsUnder(result[1], buildArrayPath(<<>>, i)))
                = ErrorBag(ElementAlone(1, i))

(***************************************************************************)
(* Validate on an object whose field o is an object with a required list   *)
(* that a condition on e overrides.                                        *)
(***************************************************************************)
fy == <<"y">>

\* "e": then o.required = req
CondRequires(req) == Cond(<<"e">>, Some(fo :> [ZeroTree EXCEPT !.Required = Some(req)]), None)

RequiredLists == {<<>>, <<fx>>, <<fy>>, <<fx, fy>>}

RequiredTrees ==
    {[ZeroTree EXCEPT
        !.Type = "object",
        !.Properties =
            Some((fe :> TypeSpec("boolean"))
                 @@ (fo :> [ZeroTree EXCEPT
                              !.Type = "object",
                              !.Properties = Some((fx :> TypeSpec("string"))
                                                  @@ (fy :> TypeSpec("string"))),
                              !.Required = base])),
        !.Conditions = Some(<<CondRequires(req)>>)] :
        base \in {None} \cup {Some(q) : q \in RequiredLists},
        req \in RequiredLists}

NestedValues ==
    {MapV(Restrict((fx :> StrV(<<>>)) @@ (fy :> StrV(<<"a">>)), keys)) : keys \in SUBSET {fx, fy}}
RequiredValues ==
    {MapV(Restrict((fe :> BoolV(b)) @@ (fo :> n), keys)) :
        b \in BOOLEAN, n \in NestedValues, keys \in {{fe, fo}, {fo}, {fe}}}

InitRequired == InitCalls(RequiredTrees) /\ NoTokenizer /\ pure = NoPure

NextRequired ==
    \/ \E data \in RequiredValues : Validate(1, data, root)
    \/ Reorder(1)
    \/ Step(1)
    \/ Return(1)

SpecRequired == InitRequired /\ [][NextRequired]_vars

\* the spec as the caller built it, its field o and the one condition
RootTree(p) == Get(TreeOf(pre[p], arg[p].spec))
BaseRequired(p) ==
    IF Get(RootTree(p).Properties)[fo].Required = None THEN <<>>
    ELSE Get(Get(RootTree(p).Properties)[fo].Required)
OverrideRequired(p) == Get(Get(Get(RootTree(p).Conditions)[1].Then)[fo].Required)
GuardHolds(p) == fe \in DOMAIN arg[p].data.m /\ arg[p].data.m[fe] = BoolV(TRUE)

\* the names of the list missing from the nested value, as paths under o
MissingUnder(p, req) ==
    [k \in 1..Len(SelectSeq(req, LAMBDA n : n \notin DOMAIN arg[p].data.m[fo].m)) |->
        buildPath(fo, SelectSeq(req, LAMBDA n : n \notin DOMAIN arg[p].data.m[fo].m)[k])]
MissingPaths(p) ==
    [k \in 1..Len(SelectSeq(result[p].Errors, IsMissingError)) |->
        SelectSeq(result[p].Errors, IsMissingError)[k].Path]

NestedChecked(p) ==
    /\ Returned(p)
    /\ arg[p].data.k = "map"
    /\ fo \in DOMAIN arg[p].data.m

\* C22: when the guard of the condition holds, the nested object is checked
\* against the required list of the override in place of the base's; when it
\* does not hold, against the base's list only
C22_OverrideRequiredReplaces ==
    \A p \in Procs :
        NestedChecked(p) =>
            MissingPaths(p) = MissingUnder(p, IF GuardHolds(p) THEN OverrideRequired(p)
                                              ELSE BaseRequired(p))

\* the guard holds, the base lists x and the override y, the nested value has
\* neither: the one error is at o.y
C22_Witness ==
    /\ NestedChecked(1)
    /\ GuardHolds(1)
    /\ BaseRequired(1) = <<fx>>
    /\ OverrideRequired(1) = <<fy>>
    /\ arg[1].data.m[fo] = MapV(<<>>)
    /\ MissingPaths(1) = <<buildPath(fo, fy)>>

\* the guard does not hold: the one error is at o.x
C22_WitnessBase ==
    /\ NestedChecked(1)
    /\ ~GuardHolds(1)
    /\ BaseRequired(1) = <<fx>>
    /\ OverrideRequired(1) = <<fy>>
    /\ arg[1].data.m[fo] = MapV(<<>>)
    /\ MissingPaths(1) = <<buildPath(fo, fx)>>

(***************************************************************************)
(* AND and OR of two operands, each of which may fail to evaluate.         *)
(***************************************************************************)
LeftAlone == evalExpression(pure.in.left, pure.in.obj)
RightAlone == evalExpression(pure.in.right, pure.in.obj)

\* C23: both operands of AND and OR are always evaluated: "L OR R" and
\* "L AND R" fail whenever L or R fails to evaluate, whatever the other
\* operand is, and otherwise give the disjunction or conjunction
C23_NoShortCircuit ==
    PairDone =>
        /\ (LeftAlone.st = "err" \/ RightAlone.st = "err") => pure.out.st = "err"
        /\ (LeftAlone.st = "ok" /\ RightAlone.st = "ok") =>
             /\ pure.out.st = "ok"
             /\ pure.out.val <=> IF pure.in.op = wOR THEN LeftAlone.val \/ RightAlone.val
                                 ELSE LeftAlone.val /\ RightAlone.val

\* "true OR x > 1" with x a string fails
C23_Witness ==
    /\ PairDone
    /\ pure.in.expr = <<"t","r","u","e"," ","O","R"," ","x"," ",">"," ","1">>
    /\ pure.in.obj[fx].k = "string"
    /\ pure.out.st = "err"

\* "false AND x > 1" with x a string fails
C23_WitnessAnd ==
    /\ PairDone
    /\ pure.in.expr = <<"f","a","l","s","e"," ","A","N","D"," ","x"," ",">"," ","1">>
    /\ pure.in.obj[fx].k = "string"
    /\ pure.out.st = "err"

(***************************************************************************)
(* AND and OR at word boundaries.                                          *)
(***************************************************************************)
IsDelimiter(c) == IsSpace(c) \/ c \in {"(", ")"}

\* the letters of word, in any case, stand at i (from 0) between two
\* delimiters, the start or the end of expr
Delimited(expr, i, word) ==
    /\ HasUpperPrefixAt(expr, i, word)
    /\ (i = 0 \/ IsDelimiter(At(expr, i - 1)))
    /\ (i + Len(word) >= Len(expr) \/ IsDelimiter(At(expr, i + Len(word))))

\* the words delimited so, from left to right
DelimitedAt(expr) ==
    SelectSeq([k \in 1..Len(expr) |-> k - 1],
              LAMBDA i : Delimited(expr, i, AND) \/ Delimited(expr, i, OR))
DelimitedWords(expr) ==
    [k \in 1..Len(DelimitedAt(expr)) |->
        IF Delimited(expr, DelimitedAt(expr)[k], AND) THEN Tok("tokenAnd", AND)
        ELSE Tok("tokenOr", OR)]

IsWordToken(tok) == tok.typ \in {"tokenAnd", "tokenOr"}
Unquoted(expr) == ~Contains(expr, "'") /\ ~Contains(expr, "\"")

\* C24: the tokenizer emits an And/Or token for the letters AND/OR exactly
\* when start or end of input, whitespace or a parenthesis stands on both
\* sides of them
C24_WordBoundaries ==
    (tpc = "done" /\ Unquoted(texpr)) =>
        SelectSeq(ttokens, IsWordToken) = DelimitedWords(texpr)

\* C24, the second half: a run of other characters that begins with or
\* contains the letters is one Literal token
C24_IdentifiersKept ==
    (/\ tpc = "done"
     /\ texpr \in {<<"a","n","d","r","o","i","d">>, <<"o","r","d","e","r">>,
                   <<"b","a","n","d">>, <<"O","R","a","c","l","e">>}) =>
        ttokens = <<Tok("tokenLiteral", texpr)>>

(***************************************************************************)
(* Comparisons on a field that the context holds.                          *)
(***************************************************************************)
LeftValue == pure.in.obj[TrimSpace(pure.in.left)]
RightValue == parseValue(pure.in.right)
CmpPresent == CmpDone /\ TrimSpace(pure.in.left) \in DOMAIN pure.in.obj

\* a number of one of the numeric kinds as numerator and decimal exponent
NumberOf(v) == IF v.k = "float64" THEN [n |-> v.n, e |-> v.e] ELSE [n |-> v.i, e |-> 0]
Below(a, b) == a.n * Pow10(b.e) < b.n * Pow10(a.e)
Ordered(a, op, b) ==
    IF op = <<">">> THEN Below(b, a)
    ELSE IF op = <<"<">> THEN Below(a, b)
    ELSE IF op = <<">","=">> THEN ~Below(a, b)
    ELSE ~Below(b, a)

\* C25: >, <, >= and <= on a present field return an error unless the field's
\* value and the parsed right-hand literal are both numeric, and otherwise the
\* numeric comparison; == and != on a present field never return an error
C25_OrderingNeedsNumbers ==
    CmpPresent =>
        IF pure.in.op \in {<<"=","=">>, <<"!","=">>} THEN pure.out.ok
        ELSE IF IsNumeric(LeftValue) /\ IsNumeric(RightValue)
        THEN /\ pure.out.ok
             /\ pure.out.val <=> Ordered(NumberOf(LeftValue), pure.in.op, NumberOf(RightValue))
        ELSE ~pure.out.ok

\* a string field against a number with > is an error
C25_Witness ==
    /\ CmpPresent
    /\ LeftValue = StrV(<<"2">>)
    /\ pure.in.op = <<">">> /\ pure.in.right = <<"1",".","5">>
    /\ ~pure.out.ok
    /\ pure.out.err.fmt = "cannot compare non-numeric values with %s"

\* an int field against a float literal is compared numerically: 2 >= 1.5
C25_WitnessNumeric ==
    /\ CmpPresent
    /\ LeftValue = IntV(2)
    /\ pure.in.op = <<">","=">> /\ pure.in.right = <<"1",".","5">>
    /\ pure.out.ok /\ pure.out.val

(***************************************************************************)
(* The Properties and the scalar constraints of a merge.                   *)
(***************************************************************************)
PropertiesOf(t) == IF t.Properties = None THEN <<>> ELSE Get(t.Properties)

RECURSIVE Strip(_)
\* t without Items, Required and Conditions, at every level of Properties
Strip(t) ==
    [t EXCEPT !.Items = None, !.Required = None, !.Conditions = None,
              !.Properties =
                  IF t.Properties = None THEN None
                  ELSE Some([k \in DOMAIN Get(t.Properties) |-> Strip(Get(t.Properties)[k])])]

ScalarsMerged(m, b, o) ==
    /\ m.Min = Override(o.Min, b.Min)
    /\ m.Max = Override(o.Max, b.Max)
    /\ m.MinLength = Override(o.MinLength, b.MinLength)
    /\ m.MaxLength = Override(o.MaxLength, b.MaxLength)
    /\ m.Pattern = Override(o.Pattern, b.Pattern)
    /\ m.Enum = Override(o.Enum, b.Enum)
    /\ m.AllowEmpty = Override(o.AllowEmpty, b.AllowEmpty)
    /\ m.Type = IF o.Type # "" THEN o.Type ELSE b.Type

PropertiesMerged(m, b, o) ==
    /\ DOMAIN m = DOMAIN b \cup DOMAIN o
    /\ \A k \in DOMAIN m :
          IF k \notin DOMAIN o THEN m[k] = b[k]
          ELSE IF k \notin DOMAIN b THEN m[k] = o[k]
          ELSE Strip(m[k]) = MergeTree(Strip(b[k]), Strip(o[k]))

\* C26: merge(base, override).Properties has the keys of both sides, a key on
\* both sides maps to the merge of the two specs and a key on one side to that
\* side's spec; a scalar constraint or Type present in the override replaces
\* the base's and one absent from it is inherited
C26_PropertiesUnion ==
    \A k \in 1..Len(pure.out) :
        BothGiven(k) =>
            /\ ScalarsMerged(MergedTree(k), BaseBefore(k), OverrideBefore(k))
            /\ PropertiesMerged(PropertiesOf(MergedTree(k)), PropertiesOf(BaseBefore(k)),
                                PropertiesOf(OverrideBefore(k)))

\* MergeSpecs of {x: minLength 3, z: string} and {x: every scalar but min}:
\* z passes through and x is the merge
C26_Witness ==
    /\ pure.fn = "MergeSpecs"
    /\ Len(pure.out) >= 1
    /\ BothGiven(1)
    /\ BaseBefore(1) = Props((fx :> MinLen(3)) @@ (fz :> TypeSpec("string")))
    /\ OverrideBefore(1) = Props(fx :> ScalarsB)
    /\ MergedTree(1) = Props((fx :> ScalarsB) @@ (fz :> TypeSpec("string")))

\* MergeSpecs of two specs that set scalars: the override's win, min is inherited
C26_WitnessScalars ==
    /\ pure.fn = "MergeSpecs"
    /\ Len(pure.out) >= 1
    /\ BothGiven(1)
    /\ BaseBefore(1) = ScalarsA
    /\ OverrideBefore(1) = ScalarsB
    /\ MergedTree(1) = [ScalarsB EXCEPT !.Min = Some(FloatV(1, 0)), !.MaxLength = Some(5)]

(***************************************************************************)
(* Validate on an object that carries the key z, which the spec's          *)
(* Properties do not declare and the branches of its conditions override.  *)
(***************************************************************************)
\* the override specs for z: each rejects at least one of the values of z
UndeclaredSpecs ==
    {TypeSpec("integer"), [TypeSpec("string") EXCEPT !.MinLength = Some(2)],
     [TypeSpec("string") EXCEPT !.Pattern = Some(PatBad)],
     [TypeSpec("object") EXCEPT !.Properties = Some(fx :> TypeSpec("string")),
                                !.Required = Some(<<fx>>)]}

\* "e": then z is s;  "e": then z is s, else z is t;  "z": then z is s
UndeclaredConds ==
    {Cond(<<"e">>, Some(fz :> s), None) : s \in UndeclaredSpecs}
    \cup {Cond(<<"e">>, Some((fz :> s) @@ (fv :> MinLen(1))), Some(fz :> t)) :
            s \in UndeclaredSpecs, t \in {TypeSpec("integer")}}
    \cup {Cond(<<"z">>, Some(fz :> s), None) : s \in {TypeSpec("integer")}}

UndeclaredTrees ==
    {[ZeroTree EXCEPT
        !.Type = "object",
        !.Properties = Some((fe :> TypeSpec("boolean")) @@ (fv :> TypeSpec("string"))),
        !.Conditions = Some(cs)] :
        cs \in {<<c>> : c \in UndeclaredConds}
               \cup {<<c, d>> : c \in UndeclaredConds,
                                d \in {Cond(<<"e">>, Some(fz :> MinLen(3)), None)}}}

UndeclaredZ == {StrV(<<>>), StrV(<<"a">>), IntV(5), NilV, BoolV(TRUE), MapV(<<>>)}
UndeclaredValues ==
    {MapV(Restrict((fe :> BoolV(b)) @@ (fv :> StrV(<<>>)) @@ (fz :> z), keys)) :
        b \in BOOLEAN, z \in UndeclaredZ, keys \in {{fe, fv, fz}, {fv, fz}, {fe, fz}}}

InitUndeclared == InitCalls(UndeclaredTrees) /\ NoTokenizer /\ pure = NoPure

NextUndeclared ==
    \/ \E data \in UndeclaredValues : Validate(1, data, root)
    \/ Reorder(1)
    \/ Step(1)
    \/ Return(1)

SpecUndeclared == InitUndeclared /\ [][NextUndeclared]_vars

\* the value without its key z
WithoutZ(v) == MapV(Restrict(v.m, DOMAIN v.m \ {fz}))
\* the conditions of the root spec, and whether a guard reads z
RootConditions(p) == Get(RootTree(p).Conditions)
GuardReadsZ(p) == \E k \in 1..Len(RootConditions(p)) : RootConditions(p)[k].If = fz
\* the override for z of the branch that condition k selects, if any
SelectedBranch(p, k) ==
    IF GuardHolds(p) THEN RootConditions(p)[k].Then ELSE RootConditions(p)[k].Else
OverridesZ(p, k) ==
    /\ RootConditions(p)[k].If = fe
    /\ SelectedBranch(p, k) # None
    /\ fz \in DOMAIN Get(SelectedBranch(p, k))

\* C27: a key of the value that the object's Properties do not declare never
\* produces an error, whatever the conditions select, an override spec for
\* that key included: no error of a returned Validate lies at or under z, and
\* when no guard reads z the verdict and the errors are those of the value
\* without z.
C27_UndeclaredKeyIgnored ==
    Returned(1) =>
        /\ ErrorsUnder(result[1], fz) = <<>>
        /\ ~GuardReadsZ(1) =>
              ReturnsSame(result[1],
                          ValidateOn(pre[1], WithoutZ(arg[1].data), arg[1].spec))

\* a returned call whose guard held and whose selected branch overrides z
\* with a spec that the value of z does not satisfy
C27_Witness ==
    /\ Returned(1)
    /\ GuardHolds(1)
    /\ OverridesZ(1, 1)
    /\ Get(SelectedBranch(1, 1))[fz].Type = "integer"
    /\ arg[1].data.m[fz] = StrV(<<"a">>)

\* the same through the Else branch of a guard that does not hold
C27_WitnessElse ==
    /\ Returned(1)
    /\ fe \in DOMAIN arg[1].data.m /\ arg[1].data.m[fe] = BoolV(FALSE)
    /\ OverridesZ(1, 1)
    /\ arg[1].data.m[fz] = StrV(<<>>)

(***************************************************************************)
(* Comparisons with a quoted right-hand literal.                           *)
(***************************************************************************)
QuotedDone == pure.fn = "evalExpression" /\ pure.in.kind = "quoted"
NameIs(s) == pure.in.obj[fname] = StrV(s)

\* C28: a quoted right-hand literal denotes the string between its quotes
\* with every doubled quote character replaced by a single one, and its
\* content is never split into tokens: "name == 'it''s'" is true exactly
\* when name is it's, and "name == 'a AND (b)'" is true exactly when name
\* is a AND (b)
C28_QuotedLiteral ==
    QuotedDone =>
        /\ pure.out.st = "ok"
        /\ pure.in.expr = QuotedApostrophe => (pure.out.val <=> NameIs(ItsSingle))
        /\ pure.in.expr = QuotedWords => (pure.out.val <=> NameIs(AAndB))
        /\ pure.in.expr = QuotedDouble => (pure.out.val <=> NameIs(SaySingle))

\* the half of C28 about splitting alone: the comparison with 'a AND (b)'
\* evaluates, and is true exactly when name is a AND (b)
C28_QuotedNotSplit ==
    (QuotedDone /\ pure.in.expr = QuotedWords) =>
        /\ pure.out.st = "ok"
        /\ pure.out.val <=> NameIs(AAndB)

\* what the code does with a doubled quote: it stays doubled
C28_DoubledQuoteKept ==
    (QuotedDone /\ pure.in.expr = QuotedApostrophe) =>
        /\ pure.out.st = "ok"
        /\ pure.out.val <=> NameIs(ItsDoubled)

(***************************************************************************)
(* Validate with the range statements free to visit the keys of their      *)
(* maps in any order, chosen anew between any two validate calls.          *)
(***************************************************************************)
\* "e": then v.minLength 2 and o.x.minLength 1, o.y.minLength 2
CondBoth ==
    Cond(<<"e">>,
         Some((fv :> MinLen(2)) @@ (fo :> Props((fx :> MinLen(1)) @@ (fy :> MinLen(2))))),
         None)
\* "e": then z.minLength 1 and v.minLength 3, z not a property of the object;
\*      else v.maxLength 0 and e of type string
CondOutside ==
    Cond(<<"e">>, Some((fz :> MinLen(1)) @@ (fv :> MinLen(3))),
         Some((fv :> MaxLen(0)) @@ (fe :> TypeSpec("string"))))

OrderTrees ==
    {[ZeroTree EXCEPT
        !.Type = "object",
        !.Properties =
            Some((fe :> TypeSpec("boolean"))
                 @@ (fv :> [TypeSpec("string") EXCEPT !.MinLength = Some(1)])
                 @@ (fo :> [ZeroTree EXCEPT
                              !.Type = "object",
                              !.Properties = Some(fx :> TypeSpec("string"))])),
        !.Required = Some(<<fv, fo>>),
        !.Conditions = Some(cs)] :
        cs \in {<<CondBoth>>, <<CondOutside>>, <<CondNested, CondElse>>,
                <<CondElse, CondLater>>}}

\* v and the nested object o together: both empty, both long enough, both
\* of another type
OrderFields ==
    {(fv :> StrV(<<>>)) @@ (fo :> MapV((fx :> StrV(<<>>)) @@ (fy :> StrV(<<>>)))),
     (fv :> StrV(<<"a">>)) @@ (fo :> MapV((fx :> StrV(<<"a">>)) @@ (fy :> StrV(<<"a">>)))),
     (fv :> IntV(1)) @@ (fo :> MapV(fy :> IntV(1)))}
OrderValues ==
    {MapV(Restrict((fe :> BoolV(b)) @@ f @@ (fz :> StrV(<<>>)), keys)) :
        b \in BOOLEAN, f \in OrderFields, keys \in {{fe, fv, fo, fz}, {fe, fo}}}

InitOrder == InitCalls(OrderTrees) /\ NoTokenizer /\ pure = NoPure

NextOrder ==
    \/ \E data \in OrderValues : Validate(1, data, root)
    \/ Reorder(1)
    \/ Step(1)
    \/ Return(1)

SpecOrder == InitOrder /\ [][NextOrder]_vars

\* the same call on the same spec with every range statement in the order
\* that is current now
InOneOrder(p) == ValidateOn(pre[p], arg[p].data, arg[p].spec).r
Returns(p) == ~ValidateOn(pre[p], arg[p].data, arg[p].spec).hang

\* C29: the multiset of (path, message) errors of Validate does not depend
\* on the order in which the entries of Properties maps and of Then and Else
\* maps are iterated: a call during which the orders changed at will returns
\* the errors of the call made in any one order
C29_OrderIndependent ==
    Returned(1) =>
        /\ Returns(1)
        /\ ErrorBag(result[1].Errors) = ErrorBag(InOneOrder(1).Errors)
        /\ result[1].Valid = InOneOrder(1).Valid

\* a returned call with errors at several properties, whose sequence of
\* errors is not the one of the current order
C29_Witness ==
    /\ Returned(1)
    /\ Len(result[1].Errors) >= 3
    /\ result[1].Errors # InOneOrder(1).Errors
    /\ GuardHolds(1)

(***************************************************************************)
(* MergeSpecs and the validator's mergeSpecs on the same two specs.        *)
(***************************************************************************)
\* the tree of what a merge returned
ResultTree(m) == TreeOf(m.h, m.id)
MergesAgree(h, base, override) ==
    ResultTree(MergeSpecs(h, base, override)) = ResultTree(mergeSpecs(h, base, override))

RECURSIVE CarriesItemsOrConditions(_)
\* the spec, or a spec under its Properties, has Items or Conditions
CarriesItemsOrConditions(t) ==
    \/ t.Items # None
    \/ t.Conditions # None
    \/ /\ t.Properties # None
       /\ \E k \in DOMAIN Get(t.Properties) : CarriesItemsOrConditions(Get(t.Properties)[k])

\* C30: the exported MergeSpecs and the validator's mergeSpecs return
\* structurally equal results for every pair (base, override), overrides
\* that carry Items or Conditions included
C30_MergesAgree ==
    \A k \in 1..Len(pure.out) :
        MergesAgree(pure.out[k].pre, pure.out[k].base, pure.out[k].override)

\* the two agree on every pair whose override carries neither Items nor
\* Conditions, at any depth
C30_MergesAgreeOnPlainOverrides ==
    \A k \in 1..Len(pure.out) :
        (pure.out[k].override # 0 => ~CarriesItemsOrConditions(OverrideBefore(k))) =>
            MergesAgree(pure.out[k].pre, pure.out[k].base, pure.out[k].override)
=============================================================================
